---- MODULE Spec2Model ----
(***************************************************************************)
(* Exception-handling lowering of the LDC back end: IRLandingPad           *)
(* (ir/irlandingpad.cpp) driven by the lowering of nested                  *)
(* try/catch/finally statements.                                           *)
(*                                                                         *)
(* The function body being lowered is a statement tree chosen in Init.     *)
(* Lowering is re-entrant (addCatch lowers the handler body, push builds   *)
(* the landing pad, which re-lowers finally bodies, which may push again), *)
(* so the position of every active call is kept on an explicit control     *)
(* stack and every action is one non-re-entrant stretch of one function.   *)
(***************************************************************************)
EXTENDS Integers, Sequences, FiniteSets, TLC

(* ------------------------------ bounds --------------------------------- *)

\* Most try statements in one function body.
MaxTries == 3
\* Most catch clauses in one function body.
MaxCatches == 3
\* Most active calls on the control stack (caps unbounded recursion).
MaxStack == 26
\* Deeper nests: most try statements and catch clauses of those.
DeepTries == 4
DeepCatches == 2
\* Largest value read from outside a container.
MaxGarbage == 1

(* --------------------------- statement trees --------------------------- *)

NULL == 0
NoStmt == <<>>
NoType == "null"

\* Catch declarations the trees draw from: the caught class and whether the
\* catch variable is absent, a plain local, or referenced by a nested function.
CatchDecls ==
    { [type |-> "A", var |-> "none"],
      [type |-> "B", var |-> "local"],
      [type |-> "C", var |-> "nested"] }

Types == { d.type : d \in CatchDecls }

Call == [k |-> "call", body |-> <<>>, catches |-> <<>>, fin |-> <<>>]

TryCatch(b, cs) == [k |-> "tc", body |-> b, catches |-> cs, fin |-> <<>>]

TryFinally(b, f) == [k |-> "tf", body |-> b, catches |-> <<>>, fin |-> f]

Catch(d, h) == [type |-> d.type, var |-> d.var, handler |-> h]

RECURSIVE Bodies(_, _)
RECURSIVE Stmts(_, _)
RECURSIVE CatchLists(_, _)

\* Statement lists with at most t try statements and c catch clauses: a call,
\* optionally followed by one try statement and another call.
Bodies(t, c) ==
    { <<Call>> } \cup { <<Call, s, Call>> : s \in Stmts(t, c) }

Stmts(t, c) ==
    IF t = 0 THEN {}
    ELSE UNION { UNION {
           { TryFinally(b, f) : b \in Bodies(t1, c1),
                                f \in Bodies(t - 1 - t1, c - c1) }
           \cup
           { TryCatch(b, cs) : b \in Bodies(t1, c1),
                               cs \in CatchLists(t - 1 - t1, c - c1) }
         : c1 \in 0..c } : t1 \in 0..(t - 1) }

\* Non-empty lists of catch clauses, handler bodies included.
CatchLists(t, c) ==
    IF c = 0 THEN {}
    ELSE UNION { UNION {
           { <<Catch(d, h)>> \o rest :
                 d \in CatchDecls, h \in Bodies(t1, c1),
                 rest \in { <<>> } \cup CatchLists(t - t1, c - 1 - c1) }
         : c1 \in 0..(c - 1) } : t1 \in 0..t }

\* The function bodies lowered: up to MaxTries try statements with up to
\* MaxCatches catch clauses, and deeper nests with fewer catch clauses.
Programs == Bodies(MaxTries, MaxCatches) \cup Bodies(DeepTries, DeepCatches)

\* try { riskyCall(); } catch (FooException f) { useF(f); }
\* finally { cleanup(); }
\* as the front end hands it over, the try/catch inside a try/finally; f is a
\* plain local.
Scenario ==
    << TryFinally(
         << TryCatch(<<Call>>,
                     << Catch([type |-> "B", var |-> "local"], <<Call>>) >>) >>,
         <<Call>>) >>

(* ------------------------------- state --------------------------------- *)

VARIABLES
    prog,            \* the function body being lowered
    infos,           \* IRLandingPad::infos: handlers of the active frames
    unpushed_infos,  \* IRLandingPad::unpushed_infos: staged handlers
    nInfos,          \* IRLandingPad::nInfos: list length before each frame
    padBBs,          \* IRLandingPad::padBBs: landing block of each frame
    catch_var,       \* IRLandingPad::catch_var: the shared slot, or NULL
    allocas,         \* stack slots allocated in the function so far
    irLocal,         \* catch variable -> the storage it is bound to
    scope,           \* gIR->scope(): the block instructions are appended to
    blocks,          \* the basic blocks emitted so far
    stack,           \* the active calls, innermost first
    status,          \* "running", "done", "aborted" or "undefined"
    abi_tf,          \* the TypeFunction handed to the ABI, or NULL
    abi_fty,         \* its low-level return and parameter list
    abi_seen,        \* that list as each rewrite so far left it
    abi_phase,       \* "idle", "open" (between the hooks) or "done"
    mem_inited,      \* mem.c mem_inited
    mem_count,       \* mem.c mem_count
    mem_behavior,    \* mem.c mem_behavior: the out-of-memory policy
    oom_fp,          \* mem.c oom_fp: the out-of-memory handler, or NULL
    mem_blocks,      \* blocks handed out since mem_init and not yet freed
    mem_ret,         \* what the last call of the package returned
    mem_msg,         \* the last message the package printed, or "none"
    mem_state,       \* "running", "exited" (exit) or "aborted" (assert)
    oom_pc,          \* where a request for a block stands, or "idle"
    oom_req,         \* the request: function, old block, count and policy
                     \* at entry
    oom_behavior,    \* mem_exception: the local variable behavior
    oom_trace,       \* what the request has done so far
    heap,            \* mem.c heap: the next free byte of the pool
    heapleft,        \* mem.c heapleft
    pool_chunks,     \* the size of each chunk malloc returned for the pool
    pool_results     \* what the calls of mem_fmalloc returned, oldest first

vars == <<prog, infos, unpushed_infos, nInfos, padBBs, catch_var, allocas,
          irLocal, scope, blocks, stack, status,
          abi_tf, abi_fty, abi_seen, abi_phase,
          mem_inited, mem_count, mem_behavior, oom_fp, mem_blocks, mem_ret,
          mem_msg, mem_state,
          oom_pc, oom_req, oom_behavior, oom_trace,
          heap, heapleft, pool_chunks, pool_results>>

lpvars == <<infos, unpushed_infos, nInfos, padBBs>>

lowervars == <<prog, infos, unpushed_infos, nInfos, padBBs, catch_var,
               allocas, irLocal, scope, blocks, stack, status>>

abivars == <<abi_tf, abi_fty, abi_seen, abi_phase>>

memvars == <<mem_inited, mem_count, mem_behavior, oom_fp, mem_blocks,
             mem_ret, mem_msg, mem_state>>

oomvars == <<oom_pc, oom_req, oom_behavior, oom_trace>>

poolvars == <<heap, heapleft, pool_chunks, pool_results>>

(* ------------------------------ helpers -------------------------------- *)

Front(s) == SubSeq(s, 1, Len(s) - 1)

Last(s) == s[Len(s)]

RECURSIVE BodyAt(_, _)
\* The statement list a body path names: paths alternate a statement index
\* and a slot of that statement (0 the try body, 1 the finally body of a
\* try/finally, i the handler of the i-th catch of a try/catch).
BodyAt(b, p) ==
    IF p = <<>> THEN b
    ELSE LET s == b[p[1]]
             sub == IF p[2] = 0 THEN s.body
                    ELSE IF s.k = "tf" THEN s.fin
                    ELSE s.catches[p[2]].handler
         IN  BodyAt(sub, Tail(Tail(p)))

StmtAt(p) == BodyAt(prog, Front(p))[Last(p)]

DefaultInfo == [target |-> NULL, finallyBody |-> NoStmt, catchType |-> NoType]

\* std::deque::resize
Resize(s, n) ==
    IF n <= Len(s) THEN SubSeq(s, 1, n)
    ELSE s \o [i \in 1..(n - Len(s)) |-> DefaultInfo]

NewBlock(name) == [name |-> name, ops |-> <<>>]

EmitTo(bs, bb, op) == [bs EXCEPT ![bb].ops = Append(@, op)]

Top == stack[1]

Rest == Tail(stack)

\* The IRLandingPad fields, as a value.
LPState ==
    [infos |-> infos, unpushed_infos |-> unpushed_infos,
     nInfos |-> nInfos, padBBs |-> padBBs]

StmtsFrame(path) == [k |-> "stmts", path |-> path, idx |-> 1]

(* ----------------------------- IRLandingPad ---------------------------- *)

\* get() returning the oldest landing block instead of the newest.
GetOldest == IF Len(padBBs) = 0 THEN NULL ELSE padBBs[1]

\* IRLandingPad::get
Get == IF Len(padBBs) = 0 THEN NULL ELSE Last(padBBs)

\* A catch whose type is no class: type->toBasetype()->isClassHandle() is
\* NULL.
UnresolvedDecl == [type |-> "int", var |-> "none"]

\* One try statement with such a catch, alone or next to a catch of a class.
UnresolvedPrograms ==
    { <<Call, TryCatch(<<Call>>, cs), Call>> :
        cs \in { << Catch(UnresolvedDecl, <<Call>>) >>,
                 << Catch(UnresolvedDecl, <<Call>>),
                    Catch([type |-> "A", var |-> "none"], <<Call>>) >>,
                 << Catch([type |-> "B", var |-> "local"], <<Call>>),
                    Catch(UnresolvedDecl, <<Call>>) >> } }

\* No function type is being handed to the ABI.
AbiIdle ==
    /\ abi_tf = NULL
    /\ abi_fty = NULL
    /\ abi_seen = <<>>
    /\ abi_phase = "idle"

\* The storage package as the program starts: mem_inited = 0, mem_behavior =
\* MEM_ABORTMSG, oom_fp = NULL, and the static counter zero.
MemStart ==
    /\ mem_inited = 0
    /\ mem_count = 0
    /\ mem_behavior = "MEM_ABORTMSG"
    /\ oom_fp = NULL
    /\ mem_blocks = {}
    /\ mem_ret = NULL
    /\ mem_msg = "none"
    /\ mem_state = "running"
    /\ oom_pc = "idle"
    /\ oom_req = [fn |-> "none", old |-> NULL, count |-> 0,
                  policy |-> "MEM_ABORTMSG"]
    /\ oom_behavior = "none"
    /\ oom_trace = <<>>
    /\ heap = [chunk |-> NULL, off |-> 0]
    /\ heapleft = 0
    /\ pool_chunks = <<>>
    /\ pool_results = <<>>

\* No function body is being lowered.
LoweringIdle ==
    /\ prog = <<>>
    /\ infos = <<>>
    /\ unpushed_infos = <<>>
    /\ nInfos = <<>>
    /\ padBBs = <<>>
    /\ catch_var = NULL
    /\ allocas = <<>>
    /\ irLocal = <<>>
    /\ scope = [bb |-> 1, end |-> NULL]
    /\ blocks = <<>>
    /\ stack = <<>>
    /\ status = "done"

Init ==
    /\ AbiIdle
    /\ MemStart
    /\ prog \in Programs \cup {Scenario} \cup UnresolvedPrograms
    /\ infos = <<>>
    /\ unpushed_infos = <<>>
    /\ nInfos = <<>>
    /\ padBBs = <<>>
    /\ catch_var = NULL
    /\ allocas = <<>>
    /\ irLocal = <<>>
    /\ scope = [bb |-> 1, end |-> NULL]
    /\ blocks = << NewBlock("entry") >>
    /\ stack = << StmtsFrame(<<>>) >>
    /\ status = "running"

\* IRLandingPad::getExceptionStorage: the shared slot after the call.
StorageAfter(cv, as) == IF cv = NULL THEN Len(as) + 1 ELSE cv

\* getExceptionStorage allocating a slot on every call.
AllocasAlways(cv, as) == Append(as, "catchvar")

\* IRLandingPad::getExceptionStorage: the slots allocated after the call.
AllocasAfter(cv, as) == IF cv = NULL THEN Append(as, "catchvar") ELSE as

(* ---------------- statement lowering (Statement::toIR) ------------------ *)

\* A call expression: an invoke whose unwind successor is the current landing
\* pad, a plain call when there is none.
LowerCall ==
    /\ status = "running" /\ stack # <<>>
    /\ Top.k = "stmts"
    /\ Top.idx <= Len(BodyAt(prog, Top.path))
    /\ BodyAt(prog, Top.path)[Top.idx].k = "call"
    /\ blocks' = EmitTo(blocks, scope.bb,
                        [op |-> "call", site |-> Top.path \o <<Top.idx>>,
                         unwind |-> Get])
    /\ stack' = << [Top EXCEPT !.idx = @ + 1] >> \o Rest
    /\ UNCHANGED <<abivars, memvars, oomvars, poolvars>>
    /\ UNCHANGED <<prog, infos, unpushed_infos, nInfos, padBBs, catch_var,
                   allocas, irLocal, scope, status>>

\* The end of a statement list: return to the caller.
StmtsDone ==
    /\ status = "running" /\ stack # <<>>
    /\ Top.k = "stmts"
    /\ Top.idx > Len(BodyAt(prog, Top.path))
    /\ stack' = Rest
    /\ status' = IF Rest = <<>> THEN "done" ELSE status
    /\ UNCHANGED <<abivars, memvars, oomvars, poolvars>>
    /\ UNCHANGED <<prog, infos, unpushed_infos, nInfos, padBBs, catch_var,
                   allocas, irLocal, scope, blocks>>

\* TryCatchStatement::toIR and TryFinallyStatement::toIR, up to the staging
\* of the handlers: create the blocks, leave the current block for the try
\* block, and lower what follows into the landing block.
TryBegin ==
    /\ status = "running" /\ stack # <<>>
    /\ Top.k = "stmts"
    /\ Top.idx <= Len(BodyAt(prog, Top.path))
    /\ Len(stack) < MaxStack
    /\ LET st == BodyAt(prog, Top.path)[Top.idx]
           n == Len(blocks)
           isTc == st.k = "tc"
           trybb == n + 1
           finallybb == IF isTc THEN NULL ELSE n + 2
           landingpadbb == IF isTc THEN n + 2 ELSE n + 3
           endbb == IF isTc THEN n + 3 ELSE n + 4
           fresh == IF isTc
                    THEN << NewBlock("try"), NewBlock("landingpad"),
                            NewBlock("endtrycatch") >>
                    ELSE << NewBlock("try"), NewBlock("finally"),
                            NewBlock("landingpad"), NewBlock("endtryfinally") >>
           frame == [k |-> "try", kind |-> st.k, path |-> Top.path \o <<Top.idx>>,
                     pc |-> "stage", i |-> 1,
                     trybb |-> trybb, finallybb |-> finallybb,
                     landingpadbb |-> landingpadbb, endbb |-> endbb,
                     oldend |-> scope.end, snap |-> LPState]
       IN  /\ st.k \in {"tc", "tf"}
           /\ blocks' = EmitTo(blocks, scope.bb, [op |-> "br", to |-> trybb])
                          \o fresh
           /\ scope' = [bb |-> landingpadbb, end |-> endbb]
           /\ stack' = << frame, [Top EXCEPT !.idx = @ + 1] >> \o Rest
    /\ UNCHANGED <<abivars, memvars, oomvars, poolvars>>
    /\ UNCHANGED <<prog, infos, unpushed_infos, nInfos, padBBs, catch_var,
                   allocas, irLocal, status>>

(* -------------------- IRLandingPadInfo and staging ---------------------- *)

\* std::deque::push_front on unpushed_infos.
Stage(staged, info) == <<info>> \o staged

\* The storage of a catch variable, the shared slot and the slots allocated
\* once the constructor has assigned storage.
\*   local:  bound to the shared slot (getExceptionStorage)
\*   nested: DtoDeclarationExp gives it a slot of its own, once
CatchStorage(c, cpath) ==
    LET own == c.var = "nested" /\ cpath \notin DOMAIN irLocal
        as1 == IF own THEN Append(allocas, "var") ELSE allocas
        shared == StorageAfter(catch_var, as1)
        slot == IF c.var = "local" THEN shared
                ELSE IF own THEN Len(as1)
                ELSE irLocal[cpath]
    IN  [slot |-> slot, shared |-> shared,
         allocas |-> AllocasAfter(catch_var, as1)]

\* IRLandingPad::addCatch, first half: the IRLandingPadInfo constructor up
\* to the lowering of the handler body.
AddCatchBegin ==
    /\ status = "running" /\ stack # <<>>
    /\ Top.k = "try" /\ Top.kind = "tc" /\ Top.pc = "stage"
    /\ Top.i <= Len(StmtAt(Top.path).catches)
    /\ LET c == StmtAt(Top.path).catches[Top.i]
           cpath == Top.path \o <<Top.i>>
           target == Len(blocks) + 1
           st == CatchStorage(c, cpath)
           copy == [op |-> "store", val |-> [v |-> "load", slot |-> st.shared],
                    slot |-> st.slot]
           created == Append(blocks, NewBlock("catch"))
           frame == [k |-> "catch", path |-> cpath, target |-> target,
                     end |-> Top.endbb, type |-> c.type]
       IN  /\ scope' = [bb |-> target, end |-> Top.endbb]
           /\ IF c.var = "none"
              THEN /\ blocks' = created
                   /\ UNCHANGED <<catch_var, allocas, irLocal>>
              ELSE /\ blocks' = EmitTo(created, target, copy)
                   /\ catch_var' = st.shared
                   /\ allocas' = st.allocas
                   /\ irLocal' = (cpath :> st.slot) @@ irLocal
           /\ stack' = << StmtsFrame(cpath), frame,
                          [Top EXCEPT !.pc = "addCatch", !.snap = LPState] >>
                       \o Rest
    /\ UNCHANGED <<abivars, memvars, oomvars, poolvars>>
    /\ UNCHANGED <<prog, infos, unpushed_infos, nInfos, padBBs, status>>

\* assert(!catchstmt->var->ir.irLocal) failing: the catch statement has been
\* lowered before (a build with assertions stops here, one without goes on
\* as AddCatchBegin).
AddCatchAssert ==
    /\ status = "running" /\ stack # <<>>
    /\ Top.k = "try" /\ Top.kind = "tc" /\ Top.pc = "stage"
    /\ Top.i <= Len(StmtAt(Top.path).catches)
    /\ StmtAt(Top.path).catches[Top.i].var = "local"
    /\ (Top.path \o <<Top.i>>) \in DOMAIN irLocal
    /\ status' = "aborted"
    /\ UNCHANGED <<abivars, memvars, oomvars, poolvars>>
    /\ UNCHANGED <<prog, infos, unpushed_infos, nInfos, padBBs, catch_var,
                   allocas, irLocal, scope, blocks, stack>>

\* IRLandingPad::addCatch, second half: the end of the constructor and the
\* push_front of the descriptor.
AddCatchEnd ==
    /\ status = "running" /\ stack # <<>>
    /\ Top.k = "catch"
    /\ Top.type \in Types
    /\ LET info == [target |-> Top.target, finallyBody |-> NoStmt,
                    catchType |-> Top.type]
           caller == stack[2]
       IN  /\ blocks' = EmitTo(blocks, scope.bb, [op |-> "br", to |-> Top.end])
           /\ unpushed_infos' = Stage(unpushed_infos, info)
           /\ stack' = << [caller EXCEPT !.pc = "stage", !.i = @ + 1] >>
                       \o Tail(Rest)
    /\ UNCHANGED <<abivars, memvars, oomvars, poolvars>>
    /\ UNCHANGED <<prog, infos, nInfos, padBBs, catch_var, allocas, irLocal,
                   scope, status>>

\* The end of the constructor letting a catch of no class through: the
\* descriptor is staged with a NULL type.
AddCatchUnresolvedStaged ==
    /\ status = "running" /\ stack # <<>>
    /\ Top.k = "catch"
    /\ Top.type \notin Types
    /\ LET info == [target |-> Top.target, finallyBody |-> NoStmt,
                    catchType |-> NoType]
           caller == stack[2]
       IN  /\ blocks' = EmitTo(blocks, scope.bb, [op |-> "br", to |-> Top.end])
           /\ unpushed_infos' = Stage(unpushed_infos, info)
           /\ stack' = << [caller EXCEPT !.pc = "stage", !.i = @ + 1] >>
                       \o Tail(Rest)
    /\ UNCHANGED <<abivars, memvars, oomvars, poolvars>>
    /\ UNCHANGED <<prog, infos, nInfos, padBBs, catch_var, allocas, irLocal,
                   scope, status>>

\* The end of the constructor for a catch whose type is no class: the handler
\* has been lowered and branches to end, then assert(catchType) stops the
\* compiler (without assertions, the call of codegen through the NULL
\* pointer does).
AddCatchUnresolved ==
    /\ status = "running" /\ stack # <<>>
    /\ Top.k = "catch"
    /\ Top.type \notin Types
    /\ blocks' = EmitTo(blocks, scope.bb, [op |-> "br", to |-> Top.end])
    /\ status' = "aborted"
    /\ UNCHANGED <<abivars, memvars, oomvars, poolvars>>
    /\ UNCHANGED <<prog, infos, unpushed_infos, nInfos, padBBs, catch_var,
                   allocas, irLocal, scope, stack>>

\* IRLandingPad::addFinally
AddFinally ==
    /\ status = "running" /\ stack # <<>>
    /\ Top.k = "try" /\ Top.kind = "tf" /\ Top.pc = "stage" /\ Top.i = 1
    /\ LET info == [target |-> NULL, finallyBody |-> Top.path \o <<1>>,
                    catchType |-> NoType]
       IN  unpushed_infos' = Stage(unpushed_infos, info)
    /\ stack' = << [Top EXCEPT !.i = 2, !.snap = LPState] >> \o Rest
    /\ UNCHANGED <<abivars, memvars, oomvars, poolvars>>
    /\ UNCHANGED <<prog, infos, nInfos, padBBs, catch_var, allocas, irLocal,
                   scope, blocks, status>>

(* ----------------------- push, pop, landing pads ------------------------ *)

RECURSIVE TypeArgsAppended(_)
\* The class infos appended in list order instead of inserted at the front.
TypeArgsAppended(is) ==
    IF is = <<>> THEN <<>>
    ELSE IF Head(is).finallyBody # NoStmt THEN TypeArgsAppended(Tail(is))
    ELSE << [a |-> "classinfo", type |-> Head(is).catchType] >>
         \o TypeArgsAppended(Tail(is))

RECURSIVE TypeArgs(_)
\* The class infos of the selector call: each catch of the list, in list
\* order, is inserted at the front.
TypeArgs(is) ==
    IF is = <<>> THEN <<>>
    ELSE IF Last(is).finallyBody # NoStmt THEN TypeArgs(Front(is))
    ELSE << [a |-> "classinfo", type |-> Last(is).catchType] >>
         \o TypeArgs(Front(is))

HasFinally(is) == \E i \in 1..Len(is) : is[i].finallyBody # NoStmt

HasCatch(is) == \E i \in 1..Len(is) : is[i].finallyBody = NoStmt

\* The value of llvm.eh.exception() in the landing block inBB.
EhPtr(inBB) == [v |-> "eh_ptr", bb |-> inBB]

\* The arguments of llvm.eh.selector with the personality function put in
\* front of the exception pointer.
SelectorArgsPersonalityFirst(is, inBB) ==
    << [a |-> "personality"], [a |-> "eh_ptr", bb |-> inBB] >>
    \o TypeArgs(is)
    \o (IF HasFinally(is) THEN << [a |-> "zero"] >> ELSE <<>>)

\* The arguments of llvm.eh.selector.
SelectorArgs(is, inBB) ==
    << [a |-> "eh_ptr", bb |-> inBB], [a |-> "personality"] >>
    \o TypeArgs(is)
    \o (IF HasFinally(is) THEN << [a |-> "zero"] >> ELSE <<>>)

\* The staged handlers inserted at the front of the list.
SpliceAtFront(is, staged) == staged \o is

\* infos.insert(infos.end(), unpushed_infos.begin(), unpushed_infos.end())
Splice(is, staged) == is \o staged

\* IRLandingPad::push up to the walk of constructLandingPad: the frame is
\* recorded, the staged handlers are spliced in, and the landing block gets
\* the exception pointer, the store to the shared slot and the selector call.
PushBegin ==
    /\ status = "running" /\ stack # <<>>
    /\ Top.k = "try" /\ Top.pc = "stage"
    /\ \/ Top.kind = "tc" /\ Top.i > Len(StmtAt(Top.path).catches)
       \/ Top.kind = "tf" /\ Top.i = 2
    /\ LET inBB == Top.landingpadbb
           is == Splice(infos, unpushed_infos)
           ns == Append(nInfos, Len(infos))
           b1 == EmitTo(blocks, inBB, [op |-> "eh_exception"])
           b2 == IF HasCatch(is) /\ catch_var # NULL
                 THEN EmitTo(b1, inBB, [op |-> "store", val |-> EhPtr(inBB),
                                        slot |-> catch_var])
                 ELSE b1
           frame == [k |-> "push", inBB |-> inBB, pc |-> "walk",
                     savedscope |-> scope, infos |-> is, nInfos |-> ns,
                     rit |-> Len(is)]
       IN  /\ nInfos' = ns
           /\ infos' = is
           /\ unpushed_infos' = <<>>
           /\ scope' = [bb |-> inBB, end |-> scope.end]
           /\ blocks' = EmitTo(b2, inBB, [op |-> "eh_selector",
                                          args |-> SelectorArgs(is, inBB)])
           /\ stack' = << frame, [Top EXCEPT !.pc = "push", !.snap = LPState] >>
                       \o Rest
    /\ UNCHANGED <<abivars, memvars, oomvars, poolvars>>
    /\ UNCHANGED <<prog, padBBs, catch_var, allocas, irLocal, status>>

\* The walk branching to the handler when the selector differs from the id.
WalkCatchInverted ==
    /\ status = "running" /\ stack # <<>>
    /\ Top.k = "push" /\ Top.pc = "walk" /\ Top.rit >= 1
    /\ Top.infos[Top.rit].finallyBody = NoStmt
    /\ LET info == Top.infos[Top.rit]
           next == Len(blocks) + 1
       IN  /\ blocks' = Append(EmitTo(blocks, scope.bb,
                                      [op |-> "condbr", type |-> info.catchType,
                                       then |-> next, else |-> info.target,
                                       pad |-> Top.inBB]),
                               NewBlock("eh.next"))
           /\ scope' = [bb |-> next, end |-> scope.end]
    /\ stack' = << [Top EXCEPT !.rit = @ - 1] >> \o Rest
    /\ UNCHANGED <<abivars, memvars, oomvars, poolvars>>
    /\ UNCHANGED <<prog, infos, unpushed_infos, nInfos, padBBs, catch_var,
                   allocas, irLocal, status>>

\* constructLandingPad, one catch of the walk: compare the selector with the
\* type id and branch to the handler or to a new eh.next block.
WalkCatch ==
    /\ status = "running" /\ stack # <<>>
    /\ Top.k = "push" /\ Top.pc = "walk" /\ Top.rit >= 1
    /\ Top.infos[Top.rit].finallyBody = NoStmt
    /\ LET info == Top.infos[Top.rit]
           next == Len(blocks) + 1
       IN  /\ blocks' = Append(EmitTo(blocks, scope.bb,
                                      [op |-> "condbr", type |-> info.catchType,
                                       then |-> info.target, else |-> next,
                                       pad |-> Top.inBB]),
                               NewBlock("eh.next"))
           /\ scope' = [bb |-> next, end |-> scope.end]
    /\ stack' = << [Top EXCEPT !.rit = @ - 1] >> \o Rest
    /\ UNCHANGED <<abivars, memvars, oomvars, poolvars>>
    /\ UNCHANGED <<prog, infos, unpushed_infos, nInfos, padBBs, catch_var,
                   allocas, irLocal, status>>

\* this->infos.resize(this->nInfos.top()); this->nInfos.pop()
ExitFrame(is, ns) == [infos |-> Resize(is, Last(ns)), nInfos |-> Front(ns)]

\* constructLandingPad, one finally of the walk: leave the top frame of the
\* live list and lower the cleanup body at the current position.
WalkFinally ==
    /\ status = "running" /\ stack # <<>>
    /\ Top.k = "push" /\ Top.pc = "walk" /\ Top.rit >= 1
    /\ Top.infos[Top.rit].finallyBody # NoStmt
    /\ nInfos # <<>>
    /\ infos' = ExitFrame(infos, nInfos).infos
    /\ nInfos' = ExitFrame(infos, nInfos).nInfos
    /\ stack' = << StmtsFrame(Top.infos[Top.rit].finallyBody),
                   [Top EXCEPT !.rit = @ - 1] >> \o Rest
    /\ UNCHANGED <<abivars, memvars, oomvars, poolvars>>
    /\ UNCHANGED <<prog, unpushed_infos, padBBs, catch_var, allocas, irLocal,
                   scope, blocks, status>>

\* constructLandingPad returning without restoring the live list and stack.
ConstructEndNoRestore ==
    /\ status = "running" /\ stack # <<>>
    /\ Top.k = "push" /\ Top.pc = "walk" /\ Top.rit = 0
    /\ blocks' = EmitTo(EmitTo(blocks, scope.bb,
                               [op |-> "resume", arg |-> EhPtr(Top.inBB)]),
                        scope.bb, [op |-> "unreachable"])
    /\ scope' = Top.savedscope
    /\ stack' = << [Top EXCEPT !.pc = "constructed"] >> \o Rest
    /\ UNCHANGED <<abivars, memvars, oomvars, poolvars>>
    /\ UNCHANGED <<prog, infos, nInfos, unpushed_infos, padBBs, catch_var,
                   allocas, irLocal, status>>

\* constructLandingPad resuming with the value of the shared slot instead of
\* the captured exception pointer.
ConstructEndReloads ==
    /\ status = "running" /\ stack # <<>>
    /\ Top.k = "push" /\ Top.pc = "walk" /\ Top.rit = 0
    /\ infos' = Top.infos
    /\ nInfos' = Top.nInfos
    /\ blocks' = EmitTo(EmitTo(blocks, scope.bb,
                               [op |-> "resume",
                                arg |-> [v |-> "load", slot |-> catch_var]]),
                        scope.bb, [op |-> "unreachable"])
    /\ scope' = Top.savedscope
    /\ stack' = << [Top EXCEPT !.pc = "constructed"] >> \o Rest
    /\ UNCHANGED <<abivars, memvars, oomvars, poolvars>>
    /\ UNCHANGED <<prog, unpushed_infos, padBBs, catch_var, allocas, irLocal,
                   status>>

\* constructLandingPad after the walk: the live list and frame stack are
\* restored from the copies, the unwind is resumed, the scope is restored.
ConstructEnd ==
    /\ status = "running" /\ stack # <<>>
    /\ Top.k = "push" /\ Top.pc = "walk" /\ Top.rit = 0
    /\ infos' = Top.infos
    /\ nInfos' = Top.nInfos
    /\ blocks' = EmitTo(EmitTo(blocks, scope.bb,
                               [op |-> "resume", arg |-> EhPtr(Top.inBB)]),
                        scope.bb, [op |-> "unreachable"])
    /\ scope' = Top.savedscope
    /\ stack' = << [Top EXCEPT !.pc = "constructed"] >> \o Rest
    /\ UNCHANGED <<abivars, memvars, oomvars, poolvars>>
    /\ UNCHANGED <<prog, unpushed_infos, padBBs, catch_var, allocas, irLocal,
                   status>>

\* IRLandingPad::push, the end: the landing block becomes the invoke target.
PushEnd ==
    /\ status = "running" /\ stack # <<>>
    /\ Top.k = "push" /\ Top.pc = "constructed"
    /\ padBBs' = Append(padBBs, Top.inBB)
    /\ stack' = << [stack[2] EXCEPT !.pc = "pushed"] >> \o Tail(Rest)
    /\ UNCHANGED <<abivars, memvars, oomvars, poolvars>>
    /\ UNCHANGED <<prog, infos, unpushed_infos, nInfos, catch_var, allocas,
                   irLocal, scope, blocks, status>>

\* Pop without the resize of the handler list.
PopKeepsList ==
    /\ status = "running" /\ stack # <<>>
    /\ Top.k = "try" /\ Top.pc = "body"
    /\ padBBs # <<>> /\ nInfos # <<>>
    /\ padBBs' = Front(padBBs)
    /\ nInfos' = Front(nInfos)
    /\ stack' = << [Top EXCEPT !.pc = "popped"] >> \o Rest
    /\ UNCHANGED <<abivars, memvars, oomvars, poolvars>>
    /\ UNCHANGED <<prog, infos, unpushed_infos, catch_var, allocas, irLocal,
                   scope, blocks, status>>

\* IRLandingPad::pop
Pop ==
    /\ status = "running" /\ stack # <<>>
    /\ Top.k = "try" /\ Top.pc = "body"
    /\ padBBs # <<>> /\ nInfos # <<>>
    /\ padBBs' = Front(padBBs)
    /\ infos' = Resize(infos, Last(nInfos))
    /\ nInfos' = Front(nInfos)
    /\ stack' = << [Top EXCEPT !.pc = "popped"] >> \o Rest
    /\ UNCHANGED <<abivars, memvars, oomvars, poolvars>>
    /\ UNCHANGED <<prog, unpushed_infos, catch_var, allocas, irLocal, scope,
                   blocks, status>>

\* IRLandingPad::pop called while no frame is pushed. std::stack::pop and
\* std::stack::top on an empty stack are undefined: the call may crash, or
\* return with the stacks in no defined state and the handler list resized
\* to whatever top() read.
PopUnmatched ==
    /\ status = "running" /\ stack # <<>>
    /\ Top.k = "stmts"
    /\ padBBs = <<>> /\ nInfos = <<>>
    /\ \/ /\ status' = "aborted"
          /\ UNCHANGED infos
       \/ /\ status' = "undefined"
          /\ \E n \in 0..MaxGarbage : infos' = Resize(infos, n)
    /\ UNCHANGED <<abivars, memvars, oomvars, poolvars>>
    /\ UNCHANGED <<prog, unpushed_infos, nInfos, padBBs, catch_var, allocas,
                   irLocal, scope, blocks, stack>>

(* --------------- the try statements around push and pop ----------------- *)

\* The try block is lowered with the new landing pad as unwind target.
TryBody ==
    /\ status = "running" /\ stack # <<>>
    /\ Top.k = "try" /\ Top.pc = "pushed"
    /\ scope' = [bb |-> Top.trybb,
                 end |-> IF Top.kind = "tc" THEN Top.landingpadbb
                         ELSE Top.finallybb]
    /\ stack' = << StmtsFrame(Top.path \o <<0>>), [Top EXCEPT !.pc = "body"] >>
                \o Rest
    /\ UNCHANGED <<abivars, memvars, oomvars, poolvars>>
    /\ UNCHANGED <<prog, infos, unpushed_infos, nInfos, padBBs, catch_var,
                   allocas, irLocal, blocks, status>>

\* The end of a try/catch statement: fall through to the end block.
TryCatchEnd ==
    /\ status = "running" /\ stack # <<>>
    /\ Top.k = "try" /\ Top.kind = "tc" /\ Top.pc = "popped"
    /\ blocks' = EmitTo(blocks, scope.bb, [op |-> "br", to |-> Top.endbb])
    /\ scope' = [bb |-> Top.endbb, end |-> Top.oldend]
    /\ stack' = Rest
    /\ UNCHANGED <<abivars, memvars, oomvars, poolvars>>
    /\ UNCHANGED <<prog, infos, unpushed_infos, nInfos, padBBs, catch_var,
                   allocas, irLocal, status>>

\* The finally block of a try/finally statement on the normal path.
FinallyNormal ==
    /\ status = "running" /\ stack # <<>>
    /\ Top.k = "try" /\ Top.kind = "tf" /\ Top.pc = "popped"
    /\ blocks' = EmitTo(blocks, scope.bb, [op |-> "br", to |-> Top.finallybb])
    /\ scope' = [bb |-> Top.finallybb, end |-> Top.landingpadbb]
    /\ stack' = << StmtsFrame(Top.path \o <<1>>), [Top EXCEPT !.pc = "final"] >>
                \o Rest
    /\ UNCHANGED <<abivars, memvars, oomvars, poolvars>>
    /\ UNCHANGED <<prog, infos, unpushed_infos, nInfos, padBBs, catch_var,
                   allocas, irLocal, status>>

\* The end of a try/finally statement.
TryFinallyEnd ==
    /\ status = "running" /\ stack # <<>>
    /\ Top.k = "try" /\ Top.kind = "tf" /\ Top.pc = "final"
    /\ blocks' = EmitTo(blocks, scope.bb, [op |-> "br", to |-> Top.endbb])
    /\ scope' = [bb |-> Top.endbb, end |-> Top.oldend]
    /\ stack' = Rest
    /\ UNCHANGED <<abivars, memvars, oomvars, poolvars>>
    /\ UNCHANGED <<prog, infos, unpushed_infos, nInfos, padBBs, catch_var,
                   allocas, irLocal, status>>

(* --------------------------- specification ----------------------------- *)

Next ==
    \/ LowerCall
    \/ StmtsDone
    \/ TryBegin
    \/ AddCatchBegin
    \/ AddCatchAssert
    \/ AddCatchEnd
    \/ AddCatchUnresolved
    \/ AddFinally
    \/ PushBegin
    \/ WalkCatch
    \/ WalkFinally
    \/ ConstructEnd
    \/ PushEnd
    \/ Pop
    \/ TryBody
    \/ TryCatchEnd
    \/ FinallyNormal
    \/ TryFinallyEnd

Spec == Init /\ [][Next]_vars

\* The lowering runs to its end without being interrupted: code generation
\* is one sequential computation that takes its next step whenever it has one.
LiveSpec == Spec /\ WF_vars(Next)

\* The lowering with a caller that may also call pop without a push.
MisuseNext == Next \/ PopUnmatched

MisuseSpec == Init /\ [][MisuseNext]_vars

(* ------------------------- ABI rewrite strategy ------------------------- *)

\* Parameters of the function types handed to the ABI.
MaxParams == 3

\* Calls of rewriteFunctionType on one function type.
MaxRewrites == 3

\* The strategies: TargetABI::getTarget and TargetABI::getIntrinsic.
Abis == {"target", "intrinsic"}

\* Source types: a scalar, an aggregate below the size threshold, and one
\* above it.
AbiTypes == {"int", "small", "big"}

\* The function types: a return type and up to MaxParams parameter types.
TypeFunctions ==
    [ret : AbiTypes,
     params : UNION { [1..n -> AbiTypes] : n \in 0..MaxParams }]

\* TargetABI::returnInArg: the return value travels through an extra
\* pointer argument.
returnInArg(abi, tf) == abi = "target" /\ tf.ret = "big"

\* TargetABI::passByVal: the parameter travels through a pointer to a
\* temporary of the caller.
passByVal(abi, t) == abi = "target" /\ t = "big"

\* The low-level type of a source type.
Lower(t) == IF t = "int" THEN "i32" ELSE "struct"

\* One entry of the low-level list.
Direct(t) == [ltype |-> Lower(t), attr |-> "none"]

HiddenReturn == [ltype |-> "ptr", attr |-> "sret"]

Indirect == [ltype |-> "ptr", attr |-> "byval"]

\* The low-level list of a function type before any rewrite.
DirectList(tf) ==
    [ret |-> Lower(tf.ret),
     args |-> [i \in 1..Len(tf.params) |-> Direct(tf.params[i])]]

\* The rewrite applied to whatever the list holds: one more hidden argument
\* in front of the arguments that are there.
RewrittenOnto(abi, tf, fty) ==
    [ret |-> IF returnInArg(abi, tf) THEN "void" ELSE fty.ret,
     args |-> (IF returnInArg(abi, tf) THEN <<HiddenReturn>> ELSE <<>>)
              \o [i \in 1..Len(fty.args) |->
                    IF fty.args[i].ltype = "struct" /\ abi = "target"
                    THEN Indirect ELSE fty.args[i]]]

\* TargetABI::rewriteFunctionType: the low-level list made to reflect
\* returnInArg and passByVal.
Rewritten(abi, tf, fty) ==
    [ret |-> IF returnInArg(abi, tf) THEN "void" ELSE Lower(tf.ret),
     args |-> (IF returnInArg(abi, tf) THEN <<HiddenReturn>> ELSE <<>>)
              \o [i \in 1..Len(tf.params) |->
                    IF passByVal(abi, tf.params[i])
                    THEN Indirect ELSE Direct(tf.params[i])]]

\* TargetABI::newFunctionType: the hook before a function type is rewritten.
newFunctionType ==
    /\ abi_phase \in {"idle", "done"}
    /\ \E abi \in Abis, tf \in TypeFunctions :
          /\ abi_tf' = [abi |-> abi, tf |-> tf]
          /\ abi_fty' = DirectList(tf)
    /\ abi_seen' = <<>>
    /\ abi_phase' = "open"
    /\ UNCHANGED <<lowervars, memvars, oomvars, poolvars>>

\* TargetABI::rewriteFunctionType
rewriteFunctionType ==
    /\ abi_phase = "open"
    /\ Len(abi_seen) < MaxRewrites
    /\ abi_fty' = Rewritten(abi_tf.abi, abi_tf.tf, abi_fty)
    /\ abi_seen' = Append(abi_seen, abi_fty')
    /\ UNCHANGED <<abi_tf, abi_phase>>
    /\ UNCHANGED <<lowervars, memvars, oomvars, poolvars>>

\* TargetABI::doneWithFunctionType: the hook after the rewrite.
doneWithFunctionType ==
    /\ abi_phase = "open"
    /\ abi_phase' = "done"
    /\ UNCHANGED <<abi_tf, abi_fty, abi_seen>>
    /\ UNCHANGED <<lowervars, memvars, oomvars, poolvars>>

AbiInit == AbiIdle /\ MemStart /\ LoweringIdle

AbiNext ==
    \/ newFunctionType
    \/ rewriteFunctionType
    \/ doneWithFunctionType

AbiSpec == AbiInit /\ [][AbiNext]_vars

(* --------------------------- storage allocator -------------------------- *)

\* Addresses the C library can hand out.
MaxBlocks == 3

\* Largest size asked for.
MaxBytes == 2

\* Calls of mem_init without a mem_term between them.
MaxInits == 3

\* mem_scount: the build without MEM_DEBUG only ever sets it to 0.
mem_scount == 0

\* The address of an out-of-memory handler of the application.
Handler == 1

Addrs == 1..MaxBlocks

\* MEM_E
Behaviors ==
    {"MEM_ABORTMSG", "MEM_ABORT", "MEM_RETNULL", "MEM_CALLFP", "MEM_RETRY"}

\* One pass of the switch of mem_exception for a behavior other than
\* MEM_CALLFP: whether it returns 1 (try again), how the program goes on, and
\* what it printed.
Policy(behavior) ==
    CASE behavior = "MEM_ABORTMSG" ->
           [again |-> FALSE, end |-> "exited", msg |-> "out of memory"]
      [] behavior = "MEM_ABORT" ->
           [again |-> FALSE, end |-> "exited", msg |-> "none"]
      [] behavior = "MEM_RETNULL" ->
           [again |-> FALSE, end |-> "running", msg |-> "none"]
      [] behavior = "MEM_RETRY" ->
           [again |-> TRUE, end |-> "running", msg |-> "none"]

\* mem_exception: the ways the call can end. With MEM_CALLFP the handler is
\* called until it returns something else, which is then acted on.
mem_exception ==
    IF mem_behavior # "MEM_CALLFP"
    THEN { Policy(mem_behavior) }
    ELSE IF oom_fp = NULL
    THEN { [again |-> FALSE, end |-> "aborted", msg |-> "none"] }
    ELSE { Policy(b) : b \in Behaviors \ {"MEM_CALLFP"} }

\* The ways the loop around malloc (or calloc) can end: with a block, at once
\* or after mem_exception asked to try again, or without one.
AllocLoop ==
    { [p |-> a, end |-> "running", msg |-> "none"] : a \in Addrs \ mem_blocks }
    \cup { [p |-> NULL, end |-> e.end, msg |-> e.msg] :
             e \in { x \in mem_exception : ~x.again } }

\* The ways the loop around realloc can end: the block stays or moves, or the
\* call ends without one and the old block stays.
ReallocLoop(oldmem_ptr) ==
    { [p |-> a, end |-> "running", msg |-> "none"] :
        a \in {oldmem_ptr} \cup (Addrs \ mem_blocks) }
    \cup { [p |-> NULL, end |-> e.end, msg |-> e.msg] :
             e \in { x \in mem_exception : ~x.again } }

\* mem_malloc and mem_calloc, from the size on.
Allocate(numbytes) ==
    IF numbytes = 0
    THEN /\ mem_ret' = NULL
         /\ mem_msg' = "none"
         /\ UNCHANGED <<mem_count, mem_blocks, mem_state>>
    ELSE \E r \in AllocLoop :
           /\ mem_ret' = r.p
           /\ mem_msg' = r.msg
           /\ mem_state' = r.end
           /\ mem_count' = IF r.p # NULL THEN mem_count + 1 ELSE mem_count
           /\ mem_blocks' = IF r.p # NULL THEN mem_blocks \cup {r.p}
                                          ELSE mem_blocks

\* mem_free counting down for a null pointer too.
FreeCountsNull(ptr) ==
    /\ mem_count' = mem_count - 1
    /\ mem_blocks' = mem_blocks \ {ptr}
    /\ UNCHANGED mem_state

\* mem_free, from the pointer on. A failing assert(mem_count != 0) ends the
\* program; a build with NDEBUG goes on.
Free(ptr) ==
    IF ptr = NULL
    THEN UNCHANGED <<mem_count, mem_blocks, mem_state>>
    ELSE IF mem_count = 0
    THEN \E ndebug \in BOOLEAN :
           /\ mem_state' = IF ndebug THEN "running" ELSE "aborted"
           /\ mem_count' = IF ndebug THEN mem_count - 1 ELSE mem_count
           /\ mem_blocks' = IF ndebug THEN mem_blocks \ {ptr} ELSE mem_blocks
    ELSE /\ mem_count' = mem_count - 1
         /\ mem_blocks' = mem_blocks \ {ptr}
         /\ UNCHANGED mem_state

mem_setexception ==
    /\ mem_state = "running"
    /\ \E flag \in Behaviors :
          /\ mem_behavior' = flag
          /\ oom_fp' = IF flag = "MEM_CALLFP" THEN Handler ELSE NULL
    /\ mem_msg' = "none"
    /\ UNCHANGED <<mem_inited, mem_count, mem_blocks, mem_ret, mem_state>>
    /\ UNCHANGED <<lowervars, abivars, oomvars, poolvars>>

mem_malloc ==
    /\ mem_state = "running"
    /\ \E numbytes \in 0..MaxBytes : Allocate(numbytes)
    /\ UNCHANGED <<mem_inited, mem_behavior, oom_fp>>
    /\ UNCHANGED <<lowervars, abivars, oomvars, poolvars>>

mem_calloc ==
    /\ mem_state = "running"
    /\ \E numbytes \in 0..MaxBytes : Allocate(numbytes)
    /\ UNCHANGED <<mem_inited, mem_behavior, oom_fp>>
    /\ UNCHANGED <<lowervars, abivars, oomvars, poolvars>>

\* mem_strdup of a null pointer (s = NULL) or of a string of len characters.
mem_strdup ==
    /\ mem_state = "running"
    /\ \E s \in {NULL, 1}, len \in 0..(MaxBytes - 1) :
          IF s # NULL
          THEN Allocate(len + 1)
          ELSE /\ mem_ret' = NULL
               /\ mem_msg' = "none"
               /\ UNCHANGED <<mem_count, mem_blocks, mem_state>>
    /\ UNCHANGED <<mem_inited, mem_behavior, oom_fp>>
    /\ UNCHANGED <<lowervars, abivars, oomvars, poolvars>>

\* mem_realloc of NULL or of a block the package handed out.
mem_realloc ==
    /\ mem_state = "running"
    /\ \E oldmem_ptr \in mem_blocks \cup {NULL}, newnumbytes \in 0..MaxBytes :
          IF oldmem_ptr = NULL
          THEN Allocate(newnumbytes)
          ELSE IF newnumbytes = 0
          THEN /\ Free(oldmem_ptr)
               /\ mem_ret' = NULL
               /\ mem_msg' = "none"
          ELSE \E r \in ReallocLoop(oldmem_ptr) :
                 /\ mem_ret' = r.p
                 /\ mem_msg' = r.msg
                 /\ mem_state' = r.end
                 /\ mem_blocks' = IF r.p # NULL
                                  THEN (mem_blocks \ {oldmem_ptr}) \cup {r.p}
                                  ELSE mem_blocks
                 /\ UNCHANGED mem_count
    /\ UNCHANGED <<mem_inited, mem_behavior, oom_fp>>
    /\ UNCHANGED <<lowervars, abivars, oomvars, poolvars>>

\* mem_free of NULL or of a block the package handed out.
mem_free ==
    /\ mem_state = "running"
    /\ \E ptr \in mem_blocks \cup {NULL} : Free(ptr)
    /\ mem_msg' = "none"
    /\ UNCHANGED <<mem_inited, mem_behavior, oom_fp, mem_ret>>
    /\ UNCHANGED <<lowervars, abivars, oomvars, poolvars>>

mem_init ==
    /\ mem_state = "running"
    /\ mem_inited < MaxInits
    /\ IF mem_inited = 0
       THEN /\ mem_count' = 0
            /\ oom_fp' = NULL
            /\ mem_behavior' = "MEM_ABORTMSG"
            /\ mem_blocks' = {}
       ELSE UNCHANGED <<mem_count, oom_fp, mem_behavior, mem_blocks>>
    /\ mem_inited' = mem_inited + 1
    /\ mem_msg' = "none"
    /\ UNCHANGED <<mem_ret, mem_state>>
    /\ UNCHANGED <<lowervars, abivars, oomvars, poolvars>>

\* mem_term. A failing assert(mem_count == 0 && mem_scount == 0) ends the
\* program; a build with NDEBUG has printed the count and goes on.
mem_term ==
    /\ mem_state = "running"
    /\ IF mem_inited # 0 /\ ~(mem_count = 0 /\ mem_scount = 0)
       THEN /\ mem_msg' = "unfreed items"
            /\ \E ndebug \in BOOLEAN :
                  /\ mem_state' = IF ndebug THEN "running" ELSE "aborted"
                  /\ mem_inited' = IF ndebug THEN 0 ELSE mem_inited
       ELSE /\ mem_inited' = 0
            /\ mem_msg' = "none"
            /\ UNCHANGED mem_state
    /\ UNCHANGED <<mem_count, mem_behavior, oom_fp, mem_blocks, mem_ret>>
    /\ UNCHANGED <<lowervars, abivars, oomvars, poolvars>>

MemInit == MemStart /\ AbiIdle /\ LoweringIdle

MemNext ==
    \/ mem_init
    \/ mem_term
    \/ mem_setexception
    \/ mem_malloc
    \/ mem_calloc
    \/ mem_strdup
    \/ mem_realloc
    \/ mem_free

MemSpec == MemInit /\ [][MemNext]_vars

(* ------------------------ the fast storage pool ------------------------- *)

\* Calls of mem_fmalloc followed.
MaxCalls == 4

\* Chunks the C library hands out to the pool.
MaxChunks == 3

\* The number of values of size_t, here one of 2 bytes.
SizeWidth == 65536

\* Every request is rounded up to a multiple of 16 bytes.
Align == 16

\* What a refill asks for beyond the request, 0x3C00.
PoolSlack == 15360

\* A refill of this size or more is cut down to the request itself.
PoolLimit == 16372

\* The sizes asked for: nothing, less than a unit, a unit, a size whose
\* refill is cut down to the request, and one whose refill size wraps round.
Requests == {0, 1, Align, PoolLimit, SizeWidth - PoolSlack}

\* (numbytes + 0xF) & ~0xF in size_t.
Rounded(numbytes) ==
    LET n == (numbytes + Align - 1) % SizeWidth IN n - (n % Align)

\* heapleft = numbytes + 0x3C00; if (heapleft >= 16372) heapleft = numbytes;
RefillSize(numbytes) ==
    LET n == (numbytes + PoolSlack) % SizeWidth
    IN  IF n >= PoolLimit THEN numbytes ELSE n

\* A pointer: the chunk it points into and the offset from the chunk's
\* start. Chunk 0 stands for no chunk, so the null pointer is offset 0 of it.
Ptr(chunk, off) == [chunk |-> chunk, off |-> off]

NullPtr == Ptr(NULL, 0)

\* L2 of mem_fmalloc: the block is cut from the front of what is left.
Carve(h, left, chunks, numbytes) ==
    /\ pool_results' = Append(pool_results,
                              [p |-> h, size |-> numbytes])
    /\ heap' = Ptr(h.chunk, IF h.chunk = NULL
                            THEN (h.off + numbytes) % SizeWidth
                            ELSE h.off + numbytes)
    /\ heapleft' = (left - numbytes + SizeWidth) % SizeWidth
    /\ pool_chunks' = chunks

\* mem_fmalloc. The loop around malloc ends with a chunk, at once or after
\* mem_exception asked to try again, or with mem_exception not asking to.
mem_fmalloc ==
    /\ mem_state = "running"
    /\ Len(pool_results) < MaxCalls
    /\ \E request \in Requests :
          LET numbytes == Rounded(request) IN
          IF numbytes = 0
          THEN /\ pool_results' = Append(pool_results,
                                         [p |-> NullPtr, size |-> 0])
               /\ UNCHANGED <<heap, heapleft, pool_chunks, mem_state, mem_msg>>
          ELSE IF numbytes <= heapleft
          THEN /\ Carve(heap, heapleft, pool_chunks, numbytes)
               /\ UNCHANGED <<mem_state, mem_msg>>
          ELSE LET left == RefillSize(numbytes) IN
               \/ /\ Len(pool_chunks) < MaxChunks
                  /\ Carve(Ptr(Len(pool_chunks) + 1, 0), left,
                           Append(pool_chunks, left), numbytes)
                  /\ UNCHANGED <<mem_state, mem_msg>>
               \/ \E e \in { x \in mem_exception : ~x.again } :
                     /\ heap' = NullPtr
                     /\ heapleft' = left
                     /\ pool_results' = Append(pool_results,
                                               [p |-> NullPtr,
                                                size |-> numbytes])
                     /\ mem_state' = e.end
                     /\ mem_msg' = e.msg
                     /\ UNCHANGED pool_chunks
    /\ UNCHANGED <<mem_inited, mem_count, mem_behavior, oom_fp, mem_blocks,
                   mem_ret>>
    /\ UNCHANGED <<lowervars, abivars, oomvars>>

PoolNext ==
    \/ mem_setexception
    \/ mem_fmalloc

PoolSpec == MemInit /\ [][PoolNext]_vars

(* ------------------- a request for a block, step by step ---------------- *)

\* Library calls and handler calls one request may make.
MaxTrace == 7

\* mem_malloc, mem_calloc or mem_realloc entered with a size that is not 0,
\* mem_realloc with a block the package handed out (with NULL it is
\* mem_malloc): the library call comes next.
RequestBegin ==
    /\ mem_state = "running"
    /\ oom_pc = "idle"
    /\ \E fn \in {"mem_malloc", "mem_calloc", "mem_realloc"},
          old \in mem_blocks \cup {NULL} :
          /\ (fn = "mem_realloc") <=> (old # NULL)
          /\ oom_req' = [fn |-> fn, old |-> old, count |-> mem_count,
                         policy |-> mem_behavior]
    /\ oom_pc' = "call"
    /\ oom_behavior' = "none"
    /\ oom_trace' = <<>>
    /\ mem_msg' = "none"
    /\ UNCHANGED <<mem_inited, mem_count, mem_behavior, oom_fp, mem_blocks,
                   mem_ret, mem_state>>
    /\ UNCHANGED <<lowervars, abivars, poolvars>>

\* p = malloc(numbytes), calloc(numbytes,1) or realloc(oldmem_ptr,
\* newnumbytes): with a block the function counts it (not for realloc) and
\* returns it; without one it calls mem_exception, whose local behavior starts
\* as mem_behavior.
LibraryCall ==
    /\ mem_state = "running"
    /\ oom_pc = "call"
    /\ Len(oom_trace) < MaxTrace
    /\ oom_trace' = Append(oom_trace, <<"try">>)
    /\ \/ /\ \E a \in (Addrs \ mem_blocks) \cup
                       (IF oom_req.fn = "mem_realloc" THEN {oom_req.old}
                                                       ELSE {}) :
                /\ mem_ret' = a
                /\ mem_blocks' = (mem_blocks \ {oom_req.old}) \cup {a}
          /\ mem_count' = IF oom_req.fn = "mem_realloc" THEN mem_count
                                                          ELSE mem_count + 1
          /\ oom_pc' = "idle"
          /\ UNCHANGED oom_behavior
       \/ /\ oom_pc' = "switch"
          /\ oom_behavior' = mem_behavior
          /\ UNCHANGED <<mem_ret, mem_blocks, mem_count>>
    /\ UNCHANGED <<mem_inited, mem_behavior, oom_fp, mem_msg, mem_state,
                   oom_req>>
    /\ UNCHANGED <<lowervars, abivars, poolvars>>

\* mem_exception: one pass of switch (b). MEM_ABORTMSG and MEM_ABORT exit,
\* MEM_CALLFP goes on to call the handler, MEM_RETNULL returns 0, so that the
\* request returns NULL, MEM_RETRY returns 1, so that the library call is
\* made again.
Switch(b) ==
    /\ mem_state = "running"
    /\ oom_pc = "switch"
    /\ oom_trace' = Append(oom_trace, <<"switch", b>>)
    /\ mem_msg' = IF b = "MEM_ABORTMSG" THEN "out of memory" ELSE "none"
    /\ mem_state' =
          CASE b \in {"MEM_ABORTMSG", "MEM_ABORT"} -> "exited"
            [] b = "MEM_CALLFP" /\ oom_fp = NULL -> "aborted"
            [] OTHER -> "running"
    /\ oom_pc' =
          CASE b = "MEM_CALLFP" /\ oom_fp # NULL -> "handler"
            [] b = "MEM_RETRY" -> "call"
            [] OTHER -> "idle"
    /\ mem_ret' = IF b = "MEM_RETNULL" THEN NULL ELSE mem_ret
    /\ UNCHANGED <<mem_inited, mem_count, mem_behavior, oom_fp, mem_blocks,
                   oom_req, oom_behavior>>
    /\ UNCHANGED <<lowervars, abivars, poolvars>>

\* The switch looking at mem_behavior instead of the local behavior.
ExceptionSwitchGlobal == Switch(mem_behavior)

\* mem_exception: switch (behavior)
ExceptionSwitch == Switch(oom_behavior)

\* mem_exception: behavior = (*oom_fp)(): the handler returns any MEM_E.
HandlerCall ==
    /\ mem_state = "running"
    /\ oom_pc = "handler"
    /\ Len(oom_trace) < MaxTrace
    /\ \E r \in Behaviors :
          /\ oom_behavior' = r
          /\ oom_trace' = Append(oom_trace, <<"fp", r>>)
    /\ oom_pc' = "switch"
    /\ UNCHANGED <<memvars, oom_req>>
    /\ UNCHANGED <<lowervars, abivars, poolvars>>

\* mem_setexception called between two requests.
SetPolicy == oom_pc = "idle" /\ mem_setexception

\* mem_free called between two requests.
FreeBlock == oom_pc = "idle" /\ mem_free

OomNext ==
    \/ RequestBegin
    \/ LibraryCall
    \/ ExceptionSwitch
    \/ HandlerCall
    \/ SetPolicy
    \/ FreeBlock

OomSpec == MemInit /\ [][OomNext]_vars

(* ---------------------- the emitted code, executed ---------------------- *)

\* llvm.eh.typeid.for: a distinct non-zero id for every class.
TypeId(t) == CASE t = "A" -> 1 [] t = "B" -> 2 [] t = "C" -> 3 [] OTHER -> 4

\* The values llvm.eh.selector can yield: a type id, or 0 for no match.
SelValues == {0} \cup { TypeId(t) : t \in Types }

RECURSIVE RunFrom(_, _, _)
\* What executing the emitted code from instruction pc of block bb does when
\* the selector value is sel and every call returns normally: the calls made,
\* the type tests made, and how it ends (a branch into a catch handler, the
\* resumed unwind, or the end of what has been emitted so far).
RunFrom(bb, pc, sel) ==
    LET ops == blocks[bb].ops IN
    IF pc > Len(ops) THEN << [e |-> "open", bb |-> bb] >>
    ELSE LET o == ops[pc] IN
         CASE o.op = "call" ->
                << [e |-> "call", site |-> o.site] >> \o RunFrom(bb, pc + 1, sel)
           [] o.op = "br" -> RunFrom(o.to, 1, sel)
           [] o.op = "condbr" ->
                << [e |-> "test", type |-> o.type, target |-> o.then] >>
                \o (IF sel = TypeId(o.type)
                    THEN << [e |-> "catch", target |-> o.then] >>
                    ELSE RunFrom(o.else, 1, sel))
           [] o.op = "resume" ->
                << [e |-> "resume", arg |-> o.arg] >> \o RunFrom(bb, pc + 1, sel)
           [] o.op = "unreachable" -> << [e |-> "unreachable"] >>
           [] OTHER -> RunFrom(bb, pc + 1, sel)

\* The path through the landing pad inBB for selector value sel.
PadPath(inBB, sel) == RunFrom(inBB, 1, sel)

Events(p, kind) == SelectSeq(p, LAMBDA ev : ev.e = kind)

\* A landing pad has just been completed: constructLandingPad has returned
\* into push, whose frame still holds the list the pad was built from.
PadDone == status = "running" /\ stack # <<>> /\ Top.k = "push"
           /\ Top.pc = "constructed"

\* The block a handler body (or finally body) was lowered into starts with
\* the body's first statement, a call.
HoldsBody(bb, bodypath) ==
    /\ bb \in 1..Len(blocks)
    /\ \E i \in 1..Len(blocks[bb].ops) :
          /\ blocks[bb].ops[i].op = "call"
          /\ blocks[bb].ops[i].site = bodypath \o <<1>>

IsCatch(info) == info.finallyBody = NoStmt

(* ------------------------------- claims -------------------------------- *)

\* pop has just returned to the try statement that called it; its frame
\* holds, in snap, the IRLandingPad fields as they were when it called push.
JustPopped == status = "running" /\ stack # <<>> /\ Top.k = "try"
              /\ Top.pc = "popped"

TopOf(bbs) == IF Len(bbs) = 0 THEN NULL ELSE Last(bbs)

\* C1: a push followed by its pop leaves the handler list with its pre-push
\* length and get() with its pre-push value (NULL when there was no target).
\* Nothing between the two calls uses the landing-pad state when the try
\* block holds no try statement, which is the case of an immediate pop; the
\* property is checked for every try statement.
C1_PushPopRoundTrip ==
    JustPopped =>
        /\ Len(infos) = Len(Top.snap.infos)
        /\ Get = TopOf(Top.snap.padBBs)

\* A nested try statement with staged catches has been pushed and popped at
\* once, with handlers and a target already there before its push.
C1_Witness ==
    /\ JustPopped
    /\ StmtAt(Top.path).body = <<Call>>
    /\ Len(Top.snap.unpushed_infos) >= 2
    /\ Len(Top.snap.infos) >= 1
    /\ Top.snap.padBBs # <<>>
    /\ Get # NULL

RECURSIVE InnermostPushed(_)
\* The landing block of the innermost try statement whose push has returned
\* and whose pop has not been called, NULL when there is none.
InnermostPushed(st) ==
    IF st = <<>> THEN NULL
    ELSE IF st[1].k = "try" /\ st[1].pc \in {"pushed", "body"}
         THEN st[1].landingpadbb
         ELSE InnermostPushed(Tail(st))

\* A call expression has just been lowered.
JustCalled ==
    /\ stack # <<>> /\ Top.k = "stmts" /\ Top.idx > 1
    /\ BodyAt(prog, Top.path)[Top.idx - 1].k = "call"

LastOp(bb) == Last(blocks[bb].ops)

\* C10: get() is NULL exactly when no push is waiting for its pop, and is
\* otherwise the block given to the latest such push; every call lowered
\* names that block as its unwind target.
C10_GetIsLatestPush ==
    /\ Get = InnermostPushed(stack)
    /\ JustCalled =>
          /\ LastOp(scope.bb).op = "call"
          /\ LastOp(scope.bb).unwind = InnermostPushed(stack)

\* Two calls of one try block, before and after a nested try statement, have
\* been given the same landing block, inside another try statement.
C10_Witness ==
    /\ JustCalled /\ Top.idx = 4
    /\ Len(padBBs) = 2
    /\ LET ops == blocks[padBBs[2] - 1].ops
       IN  \E i \in 1..Len(ops) : ops[i].op = "call" /\ ops[i].unwind = padBBs[2]
    /\ LastOp(scope.bb).unwind = padBBs[2]

\* addCatch or addFinally has just returned to the try statement staging its
\* handlers; snap holds the IRLandingPad fields as they were at the call.
JustStaged == status = "running" /\ stack # <<>> /\ Top.k = "try"
              /\ Top.pc = "stage" /\ Top.i > 1

\* push has just spliced the staged handlers in; the try statement below it
\* holds, in snap, the IRLandingPad fields as they were at the call.
JustSpliced == status = "running" /\ Len(stack) >= 2 /\ Top.k = "push"
               /\ Top.pc = "walk" /\ Top.rit = Len(Top.infos)
               /\ stack[2].pc = "push"

\* C9: addCatch and addFinally leave the handler list, the frame stack and
\* get() as they were and add one staged descriptor; the next push appends
\* every staged descriptor after the entries of the list and empties the
\* staging area.
C9_StagedUntilPush ==
    /\ JustStaged =>
          /\ infos = Top.snap.infos
          /\ nInfos = Top.snap.nInfos
          /\ Get = TopOf(Top.snap.padBBs)
          /\ Len(unpushed_infos) >= 1
    /\ JustSpliced =>
          /\ infos = stack[2].snap.infos \o stack[2].snap.unpushed_infos
          /\ Len(stack[2].snap.unpushed_infos) >= 1
          /\ nInfos = Append(stack[2].snap.nInfos, Len(stack[2].snap.infos))
          /\ unpushed_infos = <<>>

\* Two catches were staged, the handler of the second holding a try statement
\* of its own, and the push that followed found a non-empty handler list.
C9_Witness ==
    /\ JustSpliced
    /\ stack[2].snap.infos # <<>>
    /\ Len(stack[2].snap.unpushed_infos) = 2
    /\ Len(infos) >= 3

\* The handler list and frame stack a push leaves for its walk, from the
\* fields as they were when push was called.
AtWalkStart(snap) ==
    [infos |-> snap.infos \o snap.unpushed_infos,
     nInfos |-> Append(snap.nInfos, Len(snap.infos))]

\* C8: when constructLandingPad returns, the live handler list and the live
\* frame stack are what they were when its walk started.
C8_WalkRestoresLiveList ==
    PadDone =>
        /\ infos = AtWalkStart(stack[2].snap).infos
        /\ nInfos = AtWalkStart(stack[2].snap).nInfos

\* A landing pad is complete whose walk replayed two finally bodies, one of
\* them holding a try statement that was pushed and popped during the walk.
C8_Witness ==
    /\ PadDone
    /\ Cardinality({ i \in 1..Len(infos) : ~IsCatch(infos[i]) }) = 2
    /\ \E i \in 1..Len(infos) :
          /\ ~IsCatch(infos[i])
          /\ Len(BodyAt(prog, infos[i].finallyBody)) = 3

\* The selector call of the landing block inBB.
SelectorCall(inBB) ==
    LET ops == blocks[inBB].ops
    IN  ops[CHOOSE i \in 1..Len(ops) : ops[i].op = "eh_selector"]

Catches(is) == SelectSeq(is, IsCatch)

\* C6: the type entries of the selector call are the types of the catches of
\* the handler list at the push, in reverse list order, finallys giving none;
\* one 0 entry follows them exactly when the list holds a finally.
C6_SelectorEntries ==
    PadDone =>
        LET args == SelectorCall(Top.inBB).args
            types == SelectSeq(args, LAMBDA x : x.a = "classinfo")
            zeros == SelectSeq(args, LAMBDA x : x.a = "zero")
            cs == Catches(infos)
            n == Len(cs)
        IN  /\ Len(types) = n
            /\ \A i \in 1..n : types[i].type = cs[n + 1 - i].catchType
            /\ Len(zeros) = (IF \E i \in 1..Len(infos) : ~IsCatch(infos[i])
                             THEN 1 ELSE 0)
            /\ Len(zeros) = 1 => Last(args).a = "zero"
            /\ Len(args) = 2 + n + Len(zeros)

\* A landing pad over three frames: catches of two types around a finally.
C6_Witness ==
    /\ PadDone
    /\ Len(infos) = 3
    /\ IsCatch(infos[1]) /\ ~IsCatch(infos[2]) /\ IsCatch(infos[3])
    /\ infos[1].catchType # infos[3].catchType
    /\ Len(SelectorCall(Top.inBB).args) = 5

\* The function body is one try/catch statement and holds no other try.
SingleTry ==
    /\ Len(prog) = 3 /\ prog[2].k = "tc" /\ prog[2].body = <<Call>>
    /\ \A i \in 1..Len(prog[2].catches) : prog[2].catches[i].handler = <<Call>>

DistinctTypes(cs) ==
    \A i, j \in 1..Len(cs) : cs[i].type = cs[j].type => i = j

\* C2: in the landing pad of a single try whose catches have pairwise
\* different types, a selector equal to the id of the k-th catch's type ends
\* in a branch to the block holding the k-th handler, and enters no other.
C2_DispatchReachesMatch ==
    (PadDone /\ SingleTry /\ DistinctTypes(prog[2].catches)) =>
        \A k \in 1..Len(prog[2].catches) :
            LET p == PadPath(Top.inBB, TypeId(prog[2].catches[k].type))
            IN  /\ Last(p).e = "catch"
                /\ HoldsBody(Last(p).target, <<2, k>>)
                /\ Len(Events(p, "catch")) = 1

\* The landing pad of try {} catch (A) {} catch (B) {} catch (C) {} is
\* complete, and selector B ends in the handler of the second catch.
C2_Witness ==
    /\ PadDone /\ SingleTry
    /\ Len(prog[2].catches) = 3
    /\ prog[2].catches[1].type = "A"
    /\ prog[2].catches[2].type = "B"
    /\ prog[2].catches[3].type = "C"
    /\ HoldsBody(Last(PadPath(Top.inBB, TypeId("B"))).target, <<2, 2>>)

Reverse(q) == [i \in 1..Len(q) |-> q[Len(q) + 1 - i]]

\* The first statement of every cleanup body of the list, a call.
CleanupSites(is) ==
    { is[i].finallyBody \o <<1>> : i \in { n \in 1..Len(is) : ~IsCatch(is[n]) } }

\* The cleanup bodies of the list entered on a path, in order of entry.
CleanupsEntered(p, is) ==
    LET calls == SelectSeq(p, LAMBDA ev : ev.e = "call"
                                          /\ ev.site \in CleanupSites(is))
    IN  [i \in 1..Len(calls) |-> Front(calls[i].site)]

\* The cleanup bodies appended to the list after entry j, last appended first.
CleanupsAfter(is, j) ==
    LET fs == SelectSeq(Reverse(SubSeq(is, j + 1, Len(is))),
                        LAMBDA x : ~IsCatch(x))
    IN  [i \in 1..Len(fs) |-> fs[i].finallyBody]

\* Entry j of the list is the catch a selector equal to its type id selects:
\* no catch appended after it has the same type.
Selected(is, j) ==
    /\ IsCatch(is[j])
    /\ \A i \in (j + 1)..Len(is) :
          IsCatch(is[i]) => is[i].catchType # is[j].catchType

\* C3: on the path of a landing pad that ends in the handler of a catch, the
\* cleanup body of every finally appended to the handler list after that
\* catch has run exactly once, the last appended first, before the branch,
\* and no cleanup body of a finally appended before the catch has run.
C3_CleanupsBeforeCatch ==
    PadDone =>
        \A j \in 1..Len(infos) :
            Selected(infos, j) =>
                LET p == PadPath(Top.inBB, TypeId(infos[j].catchType))
                IN  /\ Last(p) = [e |-> "catch", target |-> infos[j].target]
                    /\ CleanupsEntered(p, infos) = CleanupsAfter(infos, j)

\* The cleanup bodies some walk below the top of the control stack is
\* re-lowering at the moment.
BeingReplayed ==
    { stack[n].infos[stack[n].rit + 1].finallyBody :
          n \in { m \in 2..Len(stack) :
                      stack[m].k = "push" /\ stack[m].pc = "walk" } }

\* The live handler list holds no finally whose cleanup body is being
\* re-lowered at the moment.
NoneReplayedLive ==
    \A i \in 1..Len(infos) : infos[i].finallyBody \notin BeingReplayed

\* The same for landing pads built while the handler list holds no finally
\* that is being re-lowered.
C3_CleanupsOutsideReplay == NoneReplayedLive => C3_CleanupsBeforeCatch

\* The selector value is the type id of a catch of the list.
Matches(sel, is) ==
    \E j \in 1..Len(is) : IsCatch(is[j]) /\ TypeId(is[j].catchType) = sel

\* C4: the landing pad resumes the unwind exactly when the selector matches
\* no catch of the handler list it was built from; it does so once, with the
\* exception pointer captured by the first instruction of the landing block,
\* and the resume call is followed by unreachable.
C4_ResumeOnNoMatch ==
    PadDone =>
        /\ blocks[Top.inBB].ops[1].op = "eh_exception"
        /\ \A sel \in SelValues :
              LET p == PadPath(Top.inBB, sel)
                  rs == Events(p, "resume")
              IN  /\ Len(rs) = (IF Matches(sel, infos) THEN 0 ELSE 1)
                  /\ Len(rs) = 1 =>
                        /\ rs[1].arg = EhPtr(Top.inBB)
                        /\ p[Len(p) - 1].e = "resume"
                        /\ Last(p).e = "unreachable"

\* A landing pad over a catch with a variable, a finally and another catch:
\* the shared slot holds the exception too, and selector 0 runs the cleanup
\* and resumes.
C4_Witness ==
    /\ PadDone
    /\ Len(infos) = 3 /\ HasCatch(infos) /\ HasFinally(infos)
    /\ catch_var # NULL
    /\ ~Matches(0, infos)
    /\ Len(Events(PadPath(Top.inBB, 0), "call")) >= 1
    /\ Len(Events(PadPath(Top.inBB, 0), "resume")) = 1

RECURSIVE InScope(_, _)
\* The catch clauses an exception meets, innermost try first, when it leaves
\* the statement at path p: those of p itself when own holds (the exception
\* comes from its try block), then those of the try statements around it.
\* Each is given by its type and the path of its handler body.
InScope(p, own) ==
    LET st == StmtAt(p)
        mine == IF own /\ st.k = "tc"
                THEN [i \in 1..Len(st.catches) |->
                         [type |-> st.catches[i].type, handler |-> p \o <<i>>]]
                ELSE <<>>
    IN  IF Len(p) = 1 THEN mine
        ELSE mine \o InScope(SubSeq(p, 1, Len(p) - 2), p[Len(p) - 1] = 0)

\* C5: the cascade of a landing pad tests the catch clauses in scope, those
\* of the innermost try first and those of one try in declaration order.
C5_TestOrder ==
    PadDone =>
        LET tests == Events(PadPath(Top.inBB, 0), "test")
            want == InScope(stack[2].path, TRUE)
        IN  /\ Len(tests) = Len(want)
            /\ \A i \in 1..Len(want) :
                  /\ tests[i].type = want[i].type
                  /\ HoldsBody(tests[i].target, want[i].handler)

RECURSIVE NoTryAfterCatch(_)
\* No try statement sits in the handler of a catch that follows another catch
\* of the same try statement.
NoTryAfterCatch(b) ==
    \A n \in 1..Len(b) :
        /\ NoTryAfterCatch(b[n].body)
        /\ NoTryAfterCatch(b[n].fin)
        /\ \A i \in 1..Len(b[n].catches) :
              /\ NoTryAfterCatch(b[n].catches[i].handler)
              /\ i > 1 => Len(b[n].catches[i].handler) = 1

\* The same, for function bodies without such a handler and landing pads
\* built while the handler list holds no finally that is being re-lowered.
C5_TestOrderElsewhere ==
    (NoTryAfterCatch(prog) /\ NoneReplayedLive) => C5_TestOrder

\* The walk of a landing pad is re-lowering a cleanup body: the statement
\* list on top is the body of the finally the walk has just reached.
Replaying ==
    /\ status = "running" /\ Len(stack) >= 2
    /\ Top.k = "stmts"
    /\ stack[2].k = "push" /\ stack[2].pc = "walk"

\* The list length recorded for the frame that holds entry j of the list.
FrameStart(ns, j) ==
    LET below == { n \in 1..Len(ns) : ns[n] < j }
    IN  ns[CHOOSE n \in below : \A m \in below : m <= n]

\* C7: while a cleanup body is re-lowered by the walk, the live handler list
\* holds exactly the handlers of the frames around the finally's own frame:
\* neither the finally nor anything appended after it.
C7_ReplaySeesEnclosingOnly ==
    Replaying =>
        LET walk == stack[2]
            j == walk.rit + 1
        IN  infos = SubSeq(walk.infos, 1, FrameStart(walk.nInfos, j))

\* The same when the frame of the finally is the top frame of the walk.
C7_ReplayFromOwnFrame ==
    (Replaying /\ stack[2].rit + 1 > Last(stack[2].nInfos)) =>
        C7_ReplaySeesEnclosingOnly

\* C11: pop called while no frame is pushed ends fatally: it does not
\* return, and the handler list, the frame stack and the stack of unwind
\* targets keep their values.
C11_UnmatchedPopIsFatal ==
    [][PopUnmatched => (status' = "aborted" /\ UNCHANGED lpvars)]_vars

\* The declaration of the catch clause whose handler body is at path cp.
CatchAt(cp) == StmtAt(Front(cp)).catches[Last(cp)]

\* Path p is a proper prefix of path q: q lies inside the body at p.
Inside(q, p) == Len(p) < Len(q) /\ SubSeq(q, 1, Len(p)) = p

\* The catch blocks emitted for the catch clause at cp: those that hold the
\* first statement of its handler.
CatchBlocks(cp) ==
    { b \in 1..Len(blocks) : blocks[b].name = "catch" /\ HoldsBody(b, cp) }

\* A variable not referenced from a nested function is bound to the shared
\* slot; one that is referenced gets a slot of its own, and every block of
\* its handler starts by copying the shared slot into it.
C12_StorageKinds ==
    \A cp \in DOMAIN irLocal :
        IF CatchAt(cp).var = "local"
        THEN catch_var # NULL /\ irLocal[cp] = catch_var
        ELSE /\ irLocal[cp] # catch_var
             /\ allocas[irLocal[cp]] = "var"
             /\ \A b \in CatchBlocks(cp) :
                   blocks[b].ops[1] =
                       [op |-> "store", slot |-> irLocal[cp],
                        val |-> [v |-> "load", slot |-> catch_var]]

\* C12: in addition, two catch variables share storage only when neither
\* handler body lies inside the other.
C12_SharedSlotOnlyAcrossSiblings ==
    /\ C12_StorageKinds
    /\ \A cp \in DOMAIN irLocal : \A cq \in DOMAIN irLocal :
          (cp # cq /\ irLocal[cp] = irLocal[cq]) =>
              (~Inside(cp, cq) /\ ~Inside(cq, cp))

\* The slots getExceptionStorage has allocated.
SharedSlots == { i \in 1..Len(allocas) : allocas[i] = "catchvar" }

\* The slots the calls of getExceptionStorage have returned so far: what the
\* plain catch variables are bound to, what the handler blocks load the
\* exception from, and what is now in catch_var.
SlotsReturned ==
    { irLocal[cp] : cp \in { c \in DOMAIN irLocal : CatchAt(c).var = "local" } }
    \cup { blocks[b].ops[1].val.slot :
              b \in { n \in 1..Len(blocks) :
                         /\ blocks[n].name = "catch"
                         /\ blocks[n].ops # <<>>
                         /\ blocks[n].ops[1].op = "store" } }
    \cup (IF catch_var = NULL THEN {} ELSE {catch_var})

\* C13: getExceptionStorage allocates the shared slot on its first call and
\* returns that slot on every call: at most one slot has been allocated,
\* none before the first call, and every call has returned it.
C13_OneSharedSlot ==
    /\ Cardinality(SharedSlots) <= 1
    /\ SlotsReturned = SharedSlots

\* Three catch variables have been given storage, one of them a slot of its
\* own: getExceptionStorage has been called at least six times.
C13_Witness ==
    /\ Cardinality(DOMAIN irLocal) = 3
    /\ \E cp \in DOMAIN irLocal : CatchAt(cp).var = "nested"
    /\ \E cp \in DOMAIN irLocal : CatchAt(cp).var = "local"
    /\ Cardinality(SharedSlots) = 1

\* The scenario has been lowered completely.
ScenarioDone == prog = Scenario /\ status = "done"

\* The landing blocks whose selector call lists FooException.
FooPads ==
    { b \in 1..Len(blocks) :
        /\ blocks[b].name = "landingpad"
        /\ \E i \in 1..Len(blocks[b].ops) :
              /\ blocks[b].ops[i].op = "eh_selector"
              /\ \E j \in 1..Len(blocks[b].ops[i].args) :
                    blocks[b].ops[i].args[j] = [a |-> "classinfo", type |-> "B"] }

\* The call sites of cleanup() and useF(f) in the scenario.
CleanupSite == <<1, 1, 1>>
UseSite == <<1, 0, 1, 1, 1>>

\* The calls made on a path.
CallsOn(p) == [i \in 1..Len(Events(p, "call")) |-> Events(p, "call")[i].site]

\* What the scenario's landing pad does in any case: it starts by capturing
\* the exception, and when FooException does not match it runs cleanup()
\* once and resumes the unwind with the captured pointer, then unreachable.
ScenarioPad(b) ==
    LET miss == PadPath(b, 0) IN
    /\ blocks[b].ops[1].op = "eh_exception"
    /\ CallsOn(miss) = << CleanupSite >>
    /\ Events(miss, "resume") = << [e |-> "resume", arg |-> EhPtr(b)] >>
    /\ miss[Len(miss) - 1].e = "resume"
    /\ Last(miss).e = "unreachable"
    /\ Events(PadPath(b, TypeId("B")), "resume") = <<>>
    /\ Last(PadPath(b, TypeId("B"))).e = "catch"

\* C14 as amended: the replay of cleanup() in the landing pad runs on the
\* resume path only. When FooException matches, the pad branches to the
\* handler without running cleanup(); cleanup() runs once after useF(f), in
\* the finally block lowered for the normal path.
C14_ScenarioLowering ==
    ScenarioDone =>
        /\ Cardinality(FooPads) = 1
        /\ \A b \in FooPads :
              LET hit == PadPath(b, TypeId("B")) IN
              /\ ScenarioPad(b)
              /\ CallsOn(hit) = <<>>
              /\ CallsOn(RunFrom(Last(hit).target, 1, TypeId("B")))
                    = << UseSite, CleanupSite >>

C14_Witness == ScenarioDone /\ FooPads # {} /\ catch_var # NULL

\* C14: the replay of cleanup() in the landing pad runs both on the path
\* where FooException matched and on the resume path.
C14_ReplayOnBothPaths ==
    ScenarioDone =>
        /\ Cardinality(FooPads) = 1
        /\ \A b \in FooPads :
              /\ ScenarioPad(b)
              /\ CallsOn(PadPath(b, TypeId("B"))) = << CleanupSite >>

\* A descriptor is a Catch (class type and target block, no cleanup body) or
\* a Finally (cleanup body, no type, no target block), and not both.
OneVariant(d) ==
    \/ /\ d.catchType \in Types /\ d.target # NULL /\ d.finallyBody = NoStmt
    \/ /\ d.catchType = NoType /\ d.target = NULL /\ d.finallyBody # NoStmt

\* The catch clauses whose constructor has run to its end: those before the
\* one each active try statement is staging.
Constructed ==
    UNION { { StmtAt(stack[n].path).catches[i] : i \in 1..(stack[n].i - 1) } :
              n \in { m \in 1..Len(stack) :
                         stack[m].k = "try" /\ stack[m].kind = "tc" } }

\* C15: every staged or pushed descriptor has exactly one variant, and the
\* constructor of a catch whose type is no class does not return: no such
\* catch is ever staged, and the lowering stops at it.
C15_OneVariant ==
    /\ \A i \in 1..Len(unpushed_infos) : OneVariant(unpushed_infos[i])
    /\ \A i \in 1..Len(infos) : OneVariant(infos[i])
    /\ \A c \in Constructed : c.type \in Types
    /\ prog \in UnresolvedPrograms => status # "done"

\* The lowering has stopped at the end of the constructor of a catch of no
\* class, with a catch of a class staged before it.
C15_Witness ==
    /\ status = "aborted" /\ stack # <<>>
    /\ Top.k = "catch" /\ Top.type \notin Types
    /\ Len(unpushed_infos) = 1 /\ OneVariant(unpushed_infos[1])

\* The class types of the selector call of landing block inBB, in order.
SelTypes(inBB) ==
    LET cis == SelectSeq(SelectorCall(inBB).args, LAMBDA x : x.a = "classinfo")
    IN  [i \in 1..Len(cis) |-> cis[i].type]

\* The types of the catches of a handler list, in list order.
CatchTypes(is) == [i \in 1..Len(Catches(is)) |-> Catches(is)[i].catchType]

\* How often each type occurs in a sequence of types.
TypeBag(ts) == [t \in Types |-> Cardinality({ i \in 1..Len(ts) : ts[i] = t })]

\* C16 as amended: the type entries of the selector call are ordered
\* innermost frame first. For every frame of the list, the entries of the
\* catches of that frame and the frames pushed after it come first, those of
\* the catches of the frames pushed before it come last.
C16_InnerFrameFirst ==
    PadDone =>
        \A f \in 1..Len(nInfos) :
            LET outer == CatchTypes(SubSeq(infos, 1, nInfos[f]))
                inner == CatchTypes(SubSeq(infos, nInfos[f] + 1, Len(infos)))
                all == SelTypes(Top.inBB)
            IN  /\ Len(all) = Len(inner) + Len(outer)
                /\ TypeBag(SubSeq(all, 1, Len(inner))) = TypeBag(inner)
                /\ TypeBag(SubSeq(all, Len(inner) + 1, Len(all)))
                      = TypeBag(outer)

\* A landing pad over two frames, a catch of A in the outer one and catches
\* of B and C in the inner one: the selector lists A last.
C16_Witness ==
    /\ PadDone
    /\ Len(nInfos) = 2
    /\ CatchTypes(SubSeq(infos, 1, nInfos[2])) = << "A" >>
    /\ TypeBag(CatchTypes(SubSeq(infos, nInfos[2] + 1, Len(infos))))
         = TypeBag(<< "B", "C" >>)
    /\ SelTypes(Top.inBB)[3] = "A"

\* C16: the type entries of the selector call are ordered outermost catch
\* first: the entries of the catches of the frames pushed before a frame
\* come first, those of that frame and the frames pushed after it come last.
C16_OuterCatchFirst ==
    PadDone =>
        \A f \in 1..Len(nInfos) :
            LET outer == CatchTypes(SubSeq(infos, 1, nInfos[f]))
                inner == CatchTypes(SubSeq(infos, nInfos[f] + 1, Len(infos)))
                all == SelTypes(Top.inBB)
            IN  /\ Len(all) = Len(inner) + Len(outer)
                /\ TypeBag(SubSeq(all, 1, Len(outer))) = TypeBag(outer)
                /\ TypeBag(SubSeq(all, Len(outer) + 1, Len(all)))
                      = TypeBag(inner)

\* Everything after the first two arguments of the selector call is a type
\* entry or the 0 sentinel.
SelectorTail(args) ==
    /\ Len(args) >= 2
    /\ \A i \in 3..Len(args) : args[i].a \in {"classinfo", "zero"}

\* C17 as amended: the selector argument list of every landing pad starts
\* with the exception pointer captured in that landing block, followed by
\* the personality function, followed by the type entries and the sentinel.
C17_ExceptionPointerFirst ==
    PadDone =>
        LET args == SelectorCall(Top.inBB).args
        IN  /\ SelectorTail(args)
            /\ args[1] = [a |-> "eh_ptr", bb |-> Top.inBB]
            /\ args[2] = [a |-> "personality"]

\* A landing pad over a catch and a finally: four arguments.
C17_Witness ==
    /\ PadDone
    /\ Len(infos) = 2 /\ HasCatch(infos) /\ HasFinally(infos)
    /\ Len(SelectorCall(Top.inBB).args) = 4
    /\ SelectorCall(Top.inBB).args[1].a = "eh_ptr"

\* C17: the selector argument list starts with the personality function,
\* followed by the captured exception pointer, followed by the type entries
\* and the sentinel.
C17_PersonalityFirst ==
    PadDone =>
        LET args == SelectorCall(Top.inBB).args
        IN  /\ SelectorTail(args)
            /\ args[1] = [a |-> "personality"]
            /\ args[2] = [a |-> "eh_ptr", bb |-> Top.inBB]

C19_CountIsLiveBlocks ==
    /\ [](mem_count = Cardinality(mem_blocks) /\ mem_count >= 0)
    /\ [][(mem_term /\ mem_inited # 0) =>
            /\ (mem_state' = "running" /\ mem_msg' = "none") <=> mem_count = 0
            /\ mem_count = 0 <=> mem_blocks = {}]_vars

\* mem_term finding two blocks unfreed, the last request for a block having
\* ended with NULL under MEM_RETNULL.
C19_Witness ==
    /\ mem_msg = "unfreed items"
    /\ mem_state = "aborted"
    /\ mem_count = 2
    /\ mem_ret = NULL
    /\ mem_behavior = "MEM_RETNULL"

\* C20: mem_inited is 1 after every call of mem_init, also one made while
\* the package is initialised, and 0 after every call of mem_term that
\* returns.
C20_InitedIsOneOrZero ==
    [][/\ mem_init => mem_inited' = 1
       /\ (mem_term /\ mem_state' = "running") => mem_inited' = 0]_vars

\* What holds of mem_init instead: it counts mem_inited up by one, so the
\* value is 1 only after a call on a package that was not initialised.
C20_InitCountsUp ==
    [][/\ mem_init => (mem_inited' = mem_inited + 1 /\ mem_inited' >= 1)
       /\ (mem_init /\ mem_inited = 0) => mem_inited' = 1
       /\ (mem_term /\ mem_state' = "running") => mem_inited' = 0]_vars

\* What follows the i-th thing a request did, or <<>> when it is the last.
After(i) == IF i < Len(oom_trace) THEN oom_trace[i + 1] ELSE <<>>

\* C21: when the library call of mem_malloc, mem_calloc or mem_realloc
\* fails, the policy mem_setexception had set is examined: MEM_RETNULL makes the
\* request return NULL with mem_count as it was on entry, MEM_ABORTMSG and
\* MEM_ABORT exit, MEM_CALLFP calls the handler and examines what it returned
\* as the policy, so that the handler is called again while it returns
\* MEM_CALLFP and the library call is made again each time it returns
\* MEM_RETRY.
C21_PolicyDecides ==
    /\ [](\A i \in 1..Len(oom_trace) :
            LET e == oom_trace[i]
                last == i = Len(oom_trace)
            IN  /\ (e = <<"try">> /\ ~last) =>
                       After(i) = <<"switch", oom_req.policy>>
                /\ (e[1] = "fp" /\ ~last) => After(i) = <<"switch", e[2]>>
                /\ (e[1] = "fp" /\ last) =>
                       (oom_pc = "switch" /\ oom_behavior = e[2])
                /\ (e[1] = "switch" /\ e[2] = "MEM_CALLFP") =>
                       IF last THEN oom_pc = "handler"
                               ELSE After(i)[1] = "fp"
                /\ (e[1] = "switch" /\ e[2] = "MEM_RETRY") =>
                       IF last THEN oom_pc = "call"
                               ELSE After(i) = <<"try">>
                /\ (e[1] = "switch" /\ e[2] = "MEM_RETNULL") =>
                       (last /\ oom_pc = "idle")
                /\ (e[1] = "switch"
                      /\ e[2] \in {"MEM_ABORTMSG", "MEM_ABORT"}) =>
                       (last /\ mem_state = "exited"))
    /\ [][(ExceptionSwitch /\ oom_behavior = "MEM_RETNULL") =>
            /\ mem_ret' = NULL
            /\ mem_count' = oom_req.count
            /\ mem_blocks' = mem_blocks
            /\ mem_state' = "running"]_vars

\* A request under MEM_CALLFP whose handler returned MEM_CALLFP, was called
\* again and returned MEM_RETRY, after which the library call was made again
\* and returned a block.
C21_Witness ==
    /\ oom_pc = "idle"
    /\ mem_behavior = "MEM_CALLFP"
    /\ Len(oom_trace) >= 7
    /\ oom_trace[3] = <<"fp", "MEM_CALLFP">>
    /\ oom_trace[5] = <<"fp", "MEM_RETRY">>
    /\ oom_trace[Len(oom_trace)] = <<"try">>
    /\ mem_ret # NULL
    /\ mem_count = oom_req.count + 1

\* The frame the push in progress has appended: the entries of the handler
\* list above the length it recorded.
OwnFrame == SubSeq(infos, Last(nInfos) + 1, Len(infos))

\* C22: the frame a push appends holds exactly the descriptors staged for
\* its try statement, one for each catch clause or the one for its finally,
\* and nothing else, also when a handler body of the try statement holds a
\* try statement of its own.
C22_FrameIsOwnHandlers ==
    JustSpliced =>
        LET try == stack[2]
            st == StmtAt(try.path)
        IN  IF st.k = "tc"
            THEN /\ Len(OwnFrame) = Len(st.catches)
                 /\ \A i \in 1..Len(st.catches) :
                       \E j \in 1..Len(OwnFrame) :
                          /\ IsCatch(OwnFrame[j])
                          /\ OwnFrame[j].catchType = st.catches[i].type
                          /\ HoldsBody(OwnFrame[j].target, try.path \o <<i>>)
            ELSE /\ Len(OwnFrame) = 1
                 /\ OwnFrame[1].finallyBody = try.path \o <<1>>

\* The same for function bodies in which no try statement sits in the handler
\* of a catch that follows another catch of the same try statement.
C22_FrameIsOwnElsewhere == NoTryAfterCatch(prog) => C22_FrameIsOwnHandlers

\* A handler list without the block numbers of the catch targets.
Shape(is) ==
    [i \in 1..Len(is) |->
        [finallyBody |-> is[i].finallyBody, catchType |-> is[i].catchType]]

\* A try statement is being lowered inside the lowering of the same try
\* statement, both at the same call of addCatch or push and both having made
\* it with the same handler list, staging list and frame stack: what the
\* outer one did to get here the inner one does again.
Recurs ==
    \E i, j \in 1..Len(stack) :
        /\ i < j
        /\ stack[i].k = "try" /\ stack[j].k = "try"
        /\ stack[i].pc = stack[j].pc /\ stack[i].i = stack[j].i
        /\ stack[i].path = stack[j].path
        /\ Shape(stack[i].snap.infos) = Shape(stack[j].snap.infos)
        /\ Shape(stack[i].snap.unpushed_infos)
             = Shape(stack[j].snap.unpushed_infos)
        /\ stack[i].snap.nInfos = stack[j].snap.nInfos

\* The lowering has reached the depth at which the model stops following it.
CutOff ==
    /\ status = "running" /\ stack # <<>>
    /\ Len(stack) >= MaxStack
    /\ Top.k = "stmts"
    /\ Top.idx <= Len(BodyAt(prog, Top.path))
    /\ BodyAt(prog, Top.path)[Top.idx].k \in {"tc", "tf"}

\* C23: every push returns: the lowering of every function body comes to an
\* end, by completing or by a fatal error.
C23_PushReturns == <>(status # "running")

\* Where the model stops following the lowering, a push is repeating itself.
C23_CutOffRecurs == CutOff => Recurs

\* The try statement that staged the finally whose body is at path bodypath:
\* the innermost active lowering of that statement. Its snap holds the
\* IRLandingPad fields as they were when it called push.
Owner(bodypath) ==
    LET own == { n \in 1..Len(stack) :
                   stack[n].k = "try" /\ stack[n].path = Front(bodypath) }
    IN  stack[CHOOSE n \in own : \A m \in own : n <= m]

\* C24: while a cleanup body is re-lowered by the walk of a landing pad,
\* get() is the unwind target that was current just before the frame of that
\* finally was pushed, NULL when there was none.
C24_ReplayUnwindsOutside ==
    Replaying => Get = TopOf(Owner(Top.path).snap.padBBs)

\* The same when the landing pad is that of the finally's own frame.
C24_ReplayFromOwnFrame ==
    (Replaying /\ stack[2].rit + 1 > Last(stack[2].nInfos)) =>
        C24_ReplayUnwindsOutside

(* ------------- the emitted code run with calls that throw --------------- *)

\* How many exceptions are followed in one execution of the emitted code:
\* the one that enters a landing pad and the ones thrown while it is handled.
MaxThrows == 2

\* The content of a slot nothing has been stored to.
Undef == [v |-> "undef", bb |-> 0]

\* The value a store writes: the exception pointer of a landing pad, or what
\* a load from another slot yields.
Stored(val, mem) == IF val.v = "load" THEN mem[val.slot] ELSE val

\* The landing pads some invoke unwinds to.
Pads ==
    { u \in 1..Len(blocks) :
         \E b \in 1..Len(blocks) : \E i \in 1..Len(blocks[b].ops) :
            blocks[b].ops[i].op = "call" /\ blocks[b].ops[i].unwind = u }

\* The catch clause whose handler was lowered into block t.
ClauseOf(t) == CHOOSE cp \in DOMAIN irLocal : HoldsBody(t, cp)

\* Block t is the target of a catch clause that binds a variable: it starts
\* with the copy of the shared slot into the variable's storage.
BindsAt(t) ==
    /\ blocks[t].ops # <<>>
    /\ blocks[t].ops[1].op = "store"
    /\ blocks[t].ops[1].val.v = "load"
    /\ \E cp \in DOMAIN irLocal : HoldsBody(t, cp)

RECURSIVE VarsHeld(_, _, _, _, _, _)
\* Executing the emitted code from instruction pc of block bb, where any
\* invoke may return or unwind to its landing pad (n more times) with any
\* selector value: sels is the selector value each landing pad has obtained,
\* mem the content of the slots, and held the catch variables whose handler
\* is running, each with its storage and the exception pointer of the pad
\* that dispatched to the handler. TRUE when every such variable has that
\* pointer at every statement of its handler.
VarsHeld(bb, pc, sels, mem, held, n) ==
    LET ops == blocks[bb].ops IN
    IF pc > Len(ops) THEN TRUE
    ELSE LET o == ops[pc] IN
         CASE o.op = "call" ->
                LET live == { x \in held : Inside(o.site, x.cp) }
                IN  /\ \A x \in live : mem[x.slot] = x.val
                    /\ VarsHeld(bb, pc + 1, sels, mem, live, n)
                    /\ (n > 0 /\ o.unwind # NULL) =>
                          \A s \in SelValues :
                             VarsHeld(o.unwind, 1,
                                      [sels EXCEPT ![o.unwind] = s],
                                      mem, live, n - 1)
           [] o.op = "store" ->
                VarsHeld(bb, pc + 1, sels,
                         [mem EXCEPT ![o.slot] = Stored(o.val, mem)], held, n)
           [] o.op = "br" -> VarsHeld(o.to, 1, sels, mem, held, n)
           [] o.op = "condbr" ->
                IF sels[o.pad] # TypeId(o.type)
                THEN VarsHeld(o.else, 1, sels, mem, held, n)
                ELSE IF ~BindsAt(o.then)
                THEN VarsHeld(o.then, 1, sels, mem, held, n)
                ELSE LET copy == blocks[o.then].ops[1]
                         bound == [mem EXCEPT ![copy.slot] = Stored(copy.val, mem)]
                         var == [cp |-> ClauseOf(o.then), slot |-> copy.slot,
                                 val |-> EhPtr(o.pad)]
                     IN  /\ bound[copy.slot] = EhPtr(o.pad)
                         /\ VarsHeld(o.then, 2, sels, bound,
                                     held \cup {var}, n)
           [] o.op \in {"resume", "unreachable"} -> TRUE
           [] OTHER -> VarsHeld(bb, pc + 1, sels, mem, held, n)

\* The emitted code entered at landing pad u with selector value s.
HeldFrom(u, s) ==
    VarsHeld(u, 1, [b \in 1..Len(blocks) |-> IF b = u THEN s ELSE 0],
             [a \in 1..Len(allocas) |-> Undef], {}, MaxThrows - 1)

\* C25: in the code of a lowered function, from the entry of a catch
\* clause's target block to the end of its handler, the clause's variable
\* holds the exception pointer captured by the landing pad that dispatched
\* to it, whatever a replayed finally body or a try/catch inside the handler
\* has done meanwhile.
C25_BoundVariableHeld ==
    status = "done" => \A u \in Pads : \A s \in SelValues : HeldFrom(u, s)

\* A try statement lies inside a handler or inside a cleanup body.
RECURSIVE TryInside(_, _)
TryInside(b, deep) ==
    \E i \in 1..Len(b) :
        /\ b[i].k \in {"tc", "tf"}
        /\ \/ deep
           \/ TryInside(b[i].body, FALSE)
           \/ IF b[i].k = "tf" THEN TryInside(b[i].fin, TRUE)
              ELSE \E j \in 1..Len(b[i].catches) :
                      TryInside(b[i].catches[j].handler, TRUE)

\* The same for functions with no try statement inside a handler or a
\* cleanup body.
C25_HeldWithoutNesting == ~TryInside(prog, FALSE) => C25_BoundVariableHeld

RECURSIVE ScopeChain(_, _)
\* What an exception meets, innermost first, when it leaves the statement at
\* path p: the catch clauses of p in declaration order or the cleanup body of
\* p when own holds (the exception comes from its try block), then the same
\* for the try statements around it.
ScopeChain(p, own) ==
    LET st == StmtAt(p)
        mine == IF ~own THEN <<>>
                ELSE IF st.k = "tc"
                THEN [i \in 1..Len(st.catches) |->
                         [kind |-> "test", type |-> st.catches[i].type,
                          at |-> p \o <<i>>]]
                ELSE IF st.k = "tf"
                THEN << [kind |-> "cleanup", type |-> NoType,
                         at |-> p \o <<1>>] >>
                ELSE <<>>
    IN  IF Len(p) = 1 THEN mine
        ELSE mine \o ScopeChain(SubSeq(p, 1, Len(p) - 2), p[Len(p) - 1] = 0)

\* The call at site is the first statement of a cleanup body.
EntersCleanup(site) ==
    /\ Len(site) >= 3
    /\ site[Len(site)] = 1 /\ site[Len(site) - 1] = 1
    /\ StmtAt(SubSeq(site, 1, Len(site) - 2)).k = "tf"

\* The type tests of a path and its entries into cleanup bodies, those made
\* while a cleanup body of the chain is running left out.
Steps(p, chain) ==
    LET bodies == { chain[i].at :
                       i \in { n \in 1..Len(chain) : chain[n].kind = "cleanup" } }
    IN  SelectSeq(p, LAMBDA ev :
            \/ ev.e = "test"
            \/ /\ ev.e = "call"
               /\ EntersCleanup(ev.site)
               /\ \A b \in bodies : ~Inside(Front(ev.site), b))

\* C26: the path of a landing pad that ends in the resume call has tested
\* every catch clause in scope once and run the cleanup body of every
\* finally in scope once, innermost first and interleaved as the try
\* statements nest, and has done nothing else of the kind.
C26_ResumePathCoversScope ==
    PadDone =>
        LET p == PadPath(Top.inBB, 0)
            want == ScopeChain(stack[2].path, TRUE)
            got == Steps(p, want)
        IN  /\ Len(Events(p, "resume")) = 1
            /\ Len(got) = Len(want)
            /\ \A i \in 1..Len(want) :
                  IF want[i].kind = "test"
                  THEN /\ got[i].e = "test"
                       /\ got[i].type = want[i].type
                       /\ HoldsBody(got[i].target, want[i].at)
                  ELSE /\ got[i].e = "call"
                       /\ got[i].site = want[i].at \o <<1>>

\* The same, for function bodies with no try statement in the handler of a
\* later catch and landing pads built while the handler list holds no
\* finally that is being re-lowered.
C26_ResumePathElsewhere ==
    (NoTryAfterCatch(prog) /\ NoneReplayedLive) => C26_ResumePathCoversScope

\* No call of push is under way: no landing pad is being constructed.
NoPushInProgress == \A n \in 1..Len(stack) : stack[n].k # "push"

\* C27: whenever no push is in progress, padBBs and nInfos have the same
\* height, the lengths recorded in nInfos do not decrease from bottom to
\* top, and the topmost one is at most the length of infos.
C27_StacksInStep ==
    NoPushInProgress =>
        /\ Len(padBBs) = Len(nInfos)
        /\ \A i \in 1..Len(nInfos) : \A j \in i..Len(nInfos) :
              nInfos[i] <= nInfos[j]
        /\ nInfos # <<>> => Last(nInfos) <= Len(infos)

\* Three frames are pushed, recording different lengths, and the handler
\* list holds a finally: the landing pads built over it have replayed its
\* cleanup body and restored the list and the stack.
C27_Witness ==
    /\ NoPushInProgress
    /\ Len(nInfos) = 3 /\ Len(padBBs) = 3
    /\ nInfos[1] < nInfos[2] /\ nInfos[2] < nInfos[3]
    /\ nInfos[3] < Len(infos)
    /\ \E i \in 1..Len(infos) : ~IsCatch(infos[i])

\* The blocks mem_fmalloc has returned: the results that are not null.
PoolBlocks ==
    { i \in 1..Len(pool_results) : pool_results[i].p # NullPtr }

\* C28: after any sequence of mem_fmalloc calls that have returned, failed
\* refills included, heapleft is no more than what remains of the chunk
\* heap points into, and every block returned has the rounded-up size, lies
\* inside a chunk the C library handed out and overlaps no block returned
\* before.
C28_PoolSound ==
    mem_state = "running" =>
        /\ heapleft > 0 =>
              /\ heap.chunk \in 1..Len(pool_chunks)
              /\ heap.off + heapleft <= pool_chunks[heap.chunk]
        /\ \A i \in PoolBlocks :
              LET r == pool_results[i] IN
              /\ r.size > 0 /\ r.size % Align = 0
              /\ r.p.chunk \in 1..Len(pool_chunks)
              /\ r.p.off + r.size <= pool_chunks[r.p.chunk]
              /\ \A j \in { k \in PoolBlocks : k < i } :
                    LET q == pool_results[j] IN
                    \/ q.p.chunk # r.p.chunk
                    \/ q.p.off + q.size <= r.p.off
                    \/ r.p.off + r.size <= q.p.off

\* No refill has failed and no refill size has wrapped round: every call
\* that asked for something got a block, and none asked for so much that
\* the request plus 0x3C00 is not a value of size_t.
RefillsSound ==
    \A i \in 1..Len(pool_results) :
        /\ pool_results[i].size > 0 => pool_results[i].p # NullPtr
        /\ pool_results[i].size + PoolSlack < SizeWidth

\* The same as long as every refill has succeeded with a size that did not
\* wrap round.
C28_PoolSoundWhileRefillsSucceed == RefillsSound => C28_PoolSound

\* Blocks have been cut from two chunks, the second a refill.
C28_TwoChunks ==
    /\ RefillsSound
    /\ Len(pool_chunks) = 2
    /\ \E i \in PoolBlocks : \E j \in PoolBlocks :
          pool_results[i].p.chunk = 1 /\ pool_results[j].p.chunk = 2
    /\ heapleft > 0

====
